---- MODULE Spec2Model ----
(***************************************************************************)
(* A model of the tourism data access layer: the retrying fetch wrapper,   *)
(* the response normalizer, the seven endpoint clients of                  *)
(* lib/api/tour-api.ts and the fan-out aggregators of lib/api/stats-api.ts.*)
(***************************************************************************)
EXTENDS Integers, Sequences, FiniteSets, TLC

(***************************************************************************)
(* Bounds of the model.                                                    *)
(***************************************************************************)
\* longest item array an envelope carries
MaxItems == 1
\* largest totalCount an envelope carries
MaxCount == 2
\* largest pageNo / numOfRows an envelope carries
MaxPage == 1
\* most regions the region code list holds
MaxRegions == 3
MaxTypeCount == 30
MaxStats == 4
MaxStatCount == 1
MaxListed == 10
\* callers of the bookmark helpers that can be in a call at once
MaxCallers == 2
\* calls of the bookmark helpers made in all
MaxCalls == 4

(***************************************************************************)
(* JavaScript values.  Every value is a record tagged with its type, so    *)
(* that undefined, null, 0, "" and objects can be told apart the way the   *)
(* code tells them apart (=== undefined, === null, truthiness).            *)
(***************************************************************************)
Undefined == [t |-> "undefined"]
Null == [t |-> "null"]
Num(n) == [t |-> "number", v |-> n]
Str(s) == [t |-> "string", v |-> s]
Obj(id) == [t |-> "object", contentid |-> id]
Arr(s) == [t |-> "array", v |-> s]

\* ToBoolean of a value: what `!x` and `x || y` look at
Truthy(x) ==
  CASE x.t = "undefined" -> FALSE
    [] x.t = "null" -> FALSE
    [] x.t = "number" -> x.v # 0
    [] x.t = "string" -> x.v # ""
    [] OTHER -> TRUE

\* a || b
OrElse(a, b) == IF Truthy(a) THEN a ELSE b

\* String(value) as URLSearchParams sees it
StringOf(x) == IF x.t = "number" THEN ToString(x.v) ELSE x.v

(***************************************************************************)
(* Errors.  A message is the sequence of the pieces the template literal   *)
(* concatenates.                                                           *)
(***************************************************************************)
TourApiError(message, statusCode, originalError) ==
  [name |-> "TourApiError", message |-> message,
   statusCode |-> statusCode, originalError |-> originalError]

JsError(name, message) == [name |-> name, message |-> <<message>>]

IsTourApiError(e) == e.name = "TourApiError"

\* error instanceof Error ? error.message : String(error)
MessageOf(e) == e.message

\* outcomes of a call: a returned value or a thrown error
Return(v) == [kind |-> "return", value |-> v]
Throw(e) == [kind |-> "throw", error |-> e]
NoResult == [kind |-> "none"]

(***************************************************************************)
(* Credential lookup and URL building.                                     *)
(***************************************************************************)
\* process.env and the side the code runs on
Environments ==
  [TOUR_API_KEY : {Undefined, Str("server-key")},
   NEXT_PUBLIC_TOUR_API_KEY : {Undefined, Str("public-key")},
   isServer : BOOLEAN]

getApiKey_PublicFirst(env) ==
  LET serverKey == IF env.isServer THEN env.TOUR_API_KEY ELSE Undefined
      publicKey == env.NEXT_PUBLIC_TOUR_API_KEY
      apiKey == OrElse(publicKey, serverKey)
  IN IF ~Truthy(apiKey)
     THEN Throw(TourApiError(<<"Tour API key is missing">>, Undefined, Undefined))
     ELSE Return(apiKey)

getApiKey(env) ==
  LET serverKey == IF env.isServer THEN env.TOUR_API_KEY ELSE Undefined
      publicKey == env.NEXT_PUBLIC_TOUR_API_KEY
      apiKey == OrElse(serverKey, publicKey)
  IN IF ~Truthy(apiKey)
     THEN Throw(TourApiError(<<"Tour API key is missing">>, Undefined, Undefined))
     ELSE Return(apiKey)

getCommonParams(apiKey) ==
  ("serviceKey" :> apiKey) @@ ("MobileOS" :> Str("ETC")) @@
  ("MobileApp" :> Str("MyTrip")) @@ ("_type" :> Str("json"))

\* { ...commonParams, ...params } without the undefined and null values,
\* each value stringified
buildUrl(endpointPath, params, apiKey) ==
  LET allParams == params @@ getCommonParams(apiKey)
      kept == {k \in DOMAIN allParams : allParams[k].t \notin {"undefined", "null"}}
  IN [path |-> endpointPath, query |-> [k \in kept |-> StringOf(allParams[k])]]

NoUrl == [path |-> "", query |-> <<>>]

(***************************************************************************)
(* fetchWithRetry.                                                         *)
(***************************************************************************)
maxRetries == 3

\* what the network gives one attempt: a response with a status, or a
\* rejection (no response at all)
Response(status) == [kind |-> "response", status |-> status]
Rejection(e) == [kind |-> "exception", error |-> e]
NoAnswer == [kind |-> "none"]

Statuses == {200, 304, 400, 404, 500, 503}
NetworkErrors == {JsError("TypeError", "fetch failed"), JsError("Error", "ECONNRESET")}
Answers == {Response(s) : s \in Statuses} \cup {Rejection(e) : e \in NetworkErrors}

\* a backoff that grows linearly instead of doubling
Delay_Linear(attempt) == (attempt + 1) * 1000

\* Math.pow(2, attempt) * 1000
Delay(attempt) == (2 ^ attempt) * 1000

\* a classification that retries every status >= 400
StatusClass_Retry4xx(status) == IF status >= 400 THEN "server" ELSE "success"

\* how the loop classifies the status of a response: 4xx is thrown at once,
\* 5xx is retried, anything else is returned
StatusClass(status) ==
  IF status >= 400 /\ status < 500 THEN "client"
  ELSE IF status >= 500 THEN "server"
  ELSE "success"

\* response.ok
ResponseOk(status) == status >= 200 /\ status <= 299

\* response.statusText
StatusText(status) ==
  CASE status = 304 -> "Not Modified"
    [] status = 400 -> "Bad Request"
    [] status = 404 -> "Not Found"
    [] status = 500 -> "Internal Server Error"
    [] status = 503 -> "Service Unavailable"
    [] OTHER -> "OK"

\* error instanceof Error ? error : new Error(String(error))
AsError(e) ==
  IF e.name \in {"Error", "TypeError", "SyntaxError", "TourApiError"}
  THEN e ELSE JsError("Error", e.name)

ClientStatusError(status) ==
  TourApiError(<<"API request failed with status ", ToString(status)>>,
               Num(status), Undefined)

\* the exhaustion error of a 5xx answer without its status code
ServerStatusError_NoStatus(status) ==
  TourApiError(<<"API request failed with status ", ToString(status), " after ",
                 ToString(maxRetries), " retries">>, Undefined, Undefined)

ServerStatusError(status) ==
  TourApiError(<<"API request failed with status ", ToString(status), " after ",
                 ToString(maxRetries), " retries">>, Num(status), Undefined)

\* the exhaustion error without its cause
RetriesExhaustedError_NoCause(lastError) ==
  TourApiError(<<"API request failed after ", ToString(maxRetries), " retries: ">>
                 \o MessageOf(lastError), Undefined, Undefined)

RetriesExhaustedError(lastError) ==
  TourApiError(<<"API request failed after ", ToString(maxRetries), " retries: ">>
                 \o MessageOf(lastError), Undefined, lastError)

\* a loop that returns an OK response only and retries every other status
\* that is no 4xx
fetchWithRetry_OkOnly(attempt, lastError, answer) ==
  IF answer.kind = "response"
  THEN LET status == answer.status IN
       IF StatusClass(status) = "client"
       THEN [kind |-> "throw", error |-> ClientStatusError(status),
             lastError |-> ClientStatusError(status)]
       ELSE IF ~ResponseOk(status)
       THEN IF attempt < maxRetries
            THEN [kind |-> "sleep", delay |-> Delay(attempt), lastError |-> lastError]
            ELSE [kind |-> "throw", error |-> ServerStatusError(status),
                  lastError |-> ServerStatusError(status)]
       ELSE [kind |-> "return", response |-> answer, lastError |-> lastError]
  ELSE LET caught == AsError(answer.error) IN
       IF attempt < maxRetries
       THEN [kind |-> "sleep", delay |-> Delay(attempt), lastError |-> caught]
       ELSE [kind |-> "throw", error |-> RetriesExhaustedError(caught),
             lastError |-> caught]

\* One iteration of the retry loop, from the answer of the attempt to the next
\* suspension point: the response is returned, an error is thrown, or the
\* function sleeps before the next attempt.
fetchWithRetry(attempt, lastError, answer) ==
  IF answer.kind = "response"
  THEN LET status == answer.status IN
       IF StatusClass(status) = "client"
       THEN [kind |-> "throw", error |-> ClientStatusError(status),
             lastError |-> ClientStatusError(status)]
       ELSE IF StatusClass(status) = "server"
       THEN IF attempt < maxRetries
            THEN [kind |-> "sleep", delay |-> Delay(attempt), lastError |-> lastError]
            ELSE [kind |-> "throw", error |-> ServerStatusError(status),
                  lastError |-> ServerStatusError(status)]
       ELSE [kind |-> "return", response |-> answer, lastError |-> lastError]
  ELSE LET caught == AsError(answer.error) IN
       IF attempt < maxRetries
       THEN [kind |-> "sleep", delay |-> Delay(attempt), lastError |-> caught]
       ELSE [kind |-> "throw", error |-> RetriesExhaustedError(caught),
             lastError |-> caught]

(***************************************************************************)
(* The response normalizer.                                                *)
(***************************************************************************)
ContentIds == {"125266", "126508"}

ItemsMissingMessage == "Invalid API response: items.item is missing"

\* error.message.includes("items.item is missing")
IncludesItemsMissing(message) ==
  \E i \in DOMAIN message : message[i] = ItemsMissingMessage

NullDataError == JsError("TypeError", "Cannot read properties of null")

\* data.response?.body?.items?.item, for a data that is an object
ItemOf(data) == IF data.missing # "none" THEN Undefined ELSE data.item

\* a parse that takes a missing item for an empty list
parseApiResponse_EmptyWhenMissing(data) ==
  IF data.missing = "data" THEN Throw(NullDataError)
  ELSE LET items == ItemOf(data) IN
       IF items = Undefined \/ items = Null
       THEN Return(Arr(<<>>))
       ELSE Return(items)

parseApiResponse(data) ==
  IF data.missing = "data" THEN Throw(NullDataError)
  ELSE LET items == ItemOf(data) IN
       IF items = Undefined \/ items = Null
       THEN Throw(TourApiError(<<ItemsMissingMessage>>, Undefined, Undefined))
       ELSE Return(items)

\* a normalization that wraps whatever it is given
normalizeToArray_AlwaysWrap(item) == Arr(<<item>>)

normalizeToArray(item) == IF item.t = "array" THEN item ELSE Arr(<<item>>)

(***************************************************************************)
(* The endpoint clients.  Each is given by four operators: the parameters  *)
(* it puts in the URL, what it does with the response fetchWithRetry       *)
(* returned (a result, or "json": it awaits response.json()), what it does *)
(* with the parsed body, and its catch block.                              *)
(***************************************************************************)
Endpoints ==
  {"getAreaCode", "getAreaBasedList", "searchKeyword", "getDetailCommon",
   "getDetailIntro", "getDetailImage", "getDetailPetTour"}
ListEndpoints == {"getAreaBasedList", "searchKeyword"}

DefaultNumOfRows == 10
DefaultPageNo == 1

\* const { numOfRows = 10, pageNo = 1 } = params
NumOfRowsOf(params) ==
  IF params["numOfRows"] = Undefined THEN Num(DefaultNumOfRows) ELSE params["numOfRows"]
PageNoOf(params) ==
  IF params["pageNo"] = Undefined THEN Num(DefaultPageNo) ELSE params["pageNo"]

AwaitJson == [kind |-> "json"]

NotOkError(prefix, status) ==
  TourApiError(<<prefix, StatusText(status)>>, Num(status), Undefined)

\* the tail of every catch block: a TourApiError is rethrown as it is,
\* anything else is wrapped
RethrowOrWrap(prefix, error) ==
  IF IsTourApiError(error)
  THEN Throw(error)
  ELSE Throw(TourApiError(<<prefix>> \o MessageOf(error), Undefined, error))

\* ---- getAreaCode (areaCode2)
getAreaCodeUrl(params, apiKey) == buildUrl("/areaCode2", params, apiKey)
getAreaCodeResponse(status) ==
  IF ~ResponseOk(status)
  THEN Throw(NotOkError("Failed to fetch area codes: ", status))
  ELSE AwaitJson
getAreaCodeData(params, data) ==
  LET items == parseApiResponse(data) IN
  IF items.kind = "throw" THEN items ELSE Return(normalizeToArray(items.value))
getAreaCodeCatch(error) == RethrowOrWrap("Failed to get area codes: ", error)

\* ---- getAreaBasedList (areaBasedList2)
getAreaBasedListUrl(params, apiKey) ==
  buildUrl("/areaBasedList2",
           ("numOfRows" :> NumOfRowsOf(params)) @@ ("pageNo" :> PageNoOf(params)) @@ params,
           apiKey)
getAreaBasedListResponse(status) ==
  IF ~ResponseOk(status)
  THEN Throw(NotOkError("Failed to fetch area based list: ", status))
  ELSE AwaitJson
getAreaBasedListData_CountItems(params, data) ==
  LET items == parseApiResponse(data) IN
  IF items.kind = "throw" THEN items
  ELSE LET normalizedItems == normalizeToArray(items.value) IN
       Return([items |-> normalizedItems,
               totalCount |-> Num(Len(normalizedItems.v)),
               pageNo |-> OrElse(data.pageNo, PageNoOf(params)),
               numOfRows |-> OrElse(data.numOfRows, NumOfRowsOf(params))])
getAreaBasedListData(params, data) ==
  LET items == parseApiResponse(data) IN
  IF items.kind = "throw" THEN items
  ELSE LET normalizedItems == normalizeToArray(items.value) IN
       Return([items |-> normalizedItems,
               totalCount |-> OrElse(data.totalCount, Num(Len(normalizedItems.v))),
               pageNo |-> OrElse(data.pageNo, PageNoOf(params)),
               numOfRows |-> OrElse(data.numOfRows, NumOfRowsOf(params))])
getAreaBasedListCatch(error) == RethrowOrWrap("Failed to get area based list: ", error)

\* ---- searchKeyword (searchKeyword2)
searchKeywordUrl(params, apiKey) ==
  buildUrl("/searchKeyword2",
           ("numOfRows" :> NumOfRowsOf(params)) @@ ("pageNo" :> PageNoOf(params)) @@ params,
           apiKey)
searchKeywordResponse(status) ==
  IF ~ResponseOk(status)
  THEN Throw(NotOkError("Failed to search keyword: ", status))
  ELSE AwaitJson
searchKeywordData(params, data) ==
  LET items == parseApiResponse(data) IN
  IF items.kind = "throw" THEN items
  ELSE LET normalizedItems == normalizeToArray(items.value) IN
       Return([items |-> normalizedItems,
               totalCount |-> OrElse(data.totalCount, Num(Len(normalizedItems.v)))])
searchKeywordCatch(error) == RethrowOrWrap("Failed to search keyword: ", error)

\* ---- getDetailCommon (detailCommon2)
NotFoundStatus == 404

getDetailCommonUrl(params, apiKey) == buildUrl("/detailCommon2", params, apiKey)
getDetailCommonResponse(status) ==
  IF ~ResponseOk(status)
  THEN Throw(NotOkError("Failed to fetch detail common: ", status))
  ELSE AwaitJson
\* without the zero-items check: normalizedItems[0] of an empty array
getDetailCommonData_NoEmptyCheck(params, data) ==
  LET items == parseApiResponse(data) IN
  IF items.kind = "throw" THEN items
  ELSE LET normalizedItems == normalizeToArray(items.value) IN
       IF Len(normalizedItems.v) = 0 THEN Return(Undefined)
       ELSE Return(normalizedItems.v[1])

getDetailCommonData(params, data) ==
  LET items == parseApiResponse(data) IN
  IF items.kind = "throw" THEN items
  ELSE LET normalizedItems == normalizeToArray(items.value) IN
       IF Len(normalizedItems.v) = 0
       THEN Throw(TourApiError(<<"Tour detail not found for contentId: ",
                                 StringOf(params["contentId"])>>,
                               Num(NotFoundStatus), Undefined))
       ELSE Return(normalizedItems.v[1])
getDetailCommonCatch(error) == RethrowOrWrap("Failed to get detail common: ", error)

\* ---- getDetailIntro (detailIntro2)
getDetailIntroUrl(params, apiKey) == buildUrl("/detailIntro2", params, apiKey)
getDetailIntroResponse(status) ==
  IF ~ResponseOk(status)
  THEN Throw(NotOkError("Failed to fetch detail intro: ", status))
  ELSE AwaitJson
getDetailIntroData(params, data) ==
  LET items == parseApiResponse(data) IN
  IF items.kind = "throw" THEN items
  ELSE LET normalizedItems == normalizeToArray(items.value) IN
       IF Len(normalizedItems.v) = 0
       THEN Throw(TourApiError(<<"Tour intro not found for contentId: ",
                                 StringOf(params["contentId"])>>,
                               Num(NotFoundStatus), Undefined))
       ELSE Return(normalizedItems.v[1])
getDetailIntroCatch(error) == RethrowOrWrap("Failed to get detail intro: ", error)

\* ---- getDetailImage (detailImage2)
getDetailImageUrl(params, apiKey) == buildUrl("/detailImage2", params, apiKey)
getDetailImageResponse(status) ==
  IF ~ResponseOk(status)
  THEN IF status = NotFoundStatus
       THEN Return(Arr(<<>>))
       ELSE Throw(NotOkError("Failed to fetch detail image: ", status))
  ELSE AwaitJson
\* data.response.body.items.item read without optional chaining
getDetailImageData_NoChaining(params, data) ==
  IF data.missing # "none" THEN Throw(NullDataError)
  ELSE IF ~Truthy(ItemOf(data)) THEN Return(Arr(<<>>))
  ELSE LET items == parseApiResponse(data) IN
       IF items.kind = "throw" THEN items ELSE Return(normalizeToArray(items.value))

getDetailImageData(params, data) ==
  IF data.missing = "data" THEN Throw(NullDataError)
  ELSE IF ~Truthy(ItemOf(data)) THEN Return(Arr(<<>>))
  ELSE LET items == parseApiResponse(data) IN
       IF items.kind = "throw" THEN items ELSE Return(normalizeToArray(items.value))
getDetailImageCatch(error) ==
  IF IsTourApiError(error) /\ IncludesItemsMissing(error.message)
  THEN Return(Arr(<<>>))
  ELSE RethrowOrWrap("Failed to get detail image: ", error)

\* ---- getDetailPetTour (detailPetTour2)
getDetailPetTourUrl(params, apiKey) == buildUrl("/detailPetTour2", params, apiKey)
getDetailPetTourResponse(status) ==
  IF ~ResponseOk(status)
  THEN IF status = NotFoundStatus
       THEN Return(Null)
       ELSE Throw(NotOkError("Failed to fetch pet tour info: ", status))
  ELSE AwaitJson
getDetailPetTourData(params, data) ==
  IF data.missing = "data" THEN Throw(NullDataError)
  ELSE IF ~Truthy(ItemOf(data)) THEN Return(Null)
  ELSE LET items == parseApiResponse(data) IN
       IF items.kind = "throw" THEN items
       ELSE LET normalizedItems == normalizeToArray(items.value) IN
            IF Len(normalizedItems.v) = 0 THEN Return(Null)
            ELSE Return(normalizedItems.v[1])
getDetailPetTourCatch(error) ==
  IF IsTourApiError(error) /\ IncludesItemsMissing(error.message)
  THEN Return(Null)
  ELSE IF IsTourApiError(error) /\ error.statusCode = Num(NotFoundStatus)
  THEN Return(Null)
  ELSE RethrowOrWrap("Failed to get pet tour info: ", error)

\* ---- dispatch on the endpoint called
UrlOf(ep, params, apiKey) ==
  CASE ep = "getAreaCode" -> getAreaCodeUrl(params, apiKey)
    [] ep = "getAreaBasedList" -> getAreaBasedListUrl(params, apiKey)
    [] ep = "searchKeyword" -> searchKeywordUrl(params, apiKey)
    [] ep = "getDetailCommon" -> getDetailCommonUrl(params, apiKey)
    [] ep = "getDetailIntro" -> getDetailIntroUrl(params, apiKey)
    [] ep = "getDetailImage" -> getDetailImageUrl(params, apiKey)
    [] ep = "getDetailPetTour" -> getDetailPetTourUrl(params, apiKey)

OnResponse(ep, status) ==
  CASE ep = "getAreaCode" -> getAreaCodeResponse(status)
    [] ep = "getAreaBasedList" -> getAreaBasedListResponse(status)
    [] ep = "searchKeyword" -> searchKeywordResponse(status)
    [] ep = "getDetailCommon" -> getDetailCommonResponse(status)
    [] ep = "getDetailIntro" -> getDetailIntroResponse(status)
    [] ep = "getDetailImage" -> getDetailImageResponse(status)
    [] ep = "getDetailPetTour" -> getDetailPetTourResponse(status)

OnData(ep, params, data) ==
  CASE ep = "getAreaCode" -> getAreaCodeData(params, data)
    [] ep = "getAreaBasedList" -> getAreaBasedListData(params, data)
    [] ep = "searchKeyword" -> searchKeywordData(params, data)
    [] ep = "getDetailCommon" -> getDetailCommonData(params, data)
    [] ep = "getDetailIntro" -> getDetailIntroData(params, data)
    [] ep = "getDetailImage" -> getDetailImageData(params, data)
    [] ep = "getDetailPetTour" -> getDetailPetTourData(params, data)

OnCatch(ep, error) ==
  CASE ep = "getAreaCode" -> getAreaCodeCatch(error)
    [] ep = "getAreaBasedList" -> getAreaBasedListCatch(error)
    [] ep = "searchKeyword" -> searchKeywordCatch(error)
    [] ep = "getDetailCommon" -> getDetailCommonCatch(error)
    [] ep = "getDetailIntro" -> getDetailIntroCatch(error)
    [] ep = "getDetailImage" -> getDetailImageCatch(error)
    [] ep = "getDetailPetTour" -> getDetailPetTourCatch(error)

\* an outcome of the try block, through the catch block when it is a throw
Settle(ep, outcome) ==
  IF outcome.kind = "throw" THEN OnCatch(ep, outcome.error) ELSE outcome

(***************************************************************************)
(* The inputs of a call.                                                   *)
(***************************************************************************)
\* a pageNo / numOfRows argument: left out, or a value that is neither a
\* default nor a value the envelope carries
PageArgs == {Undefined, Num(MaxPage + 1)}

\* the parameters a caller passes; the fields no client reads are left out
Requests(ep) ==
  IF ep \in ListEndpoints \cup {"getAreaCode"}
  THEN {("numOfRows" :> r) @@ ("pageNo" :> q) : r \in PageArgs, q \in PageArgs}
  ELSE {("contentId" :> Str("125266"))}

SeqsUpTo(S, n) == UNION {[1..k -> S] : k \in 0..n}

ItemValues ==
  {Undefined, Null, Str("")} \cup {Obj(id) : id \in ContentIds}
    \cup {Arr(items) : items \in SeqsUpTo({Obj(id) : id \in ContentIds}, MaxItems)}

CountValues == {Undefined} \cup {Num(n) : n \in 0..MaxCount}
PageValues == {Undefined} \cup {Num(n) : n \in 0..MaxPage}

Envelope(missing, item, totalCount, pageNo, numOfRows) ==
  [missing |-> missing, item |-> item, totalCount |-> totalCount,
   pageNo |-> pageNo, numOfRows |-> numOfRows]

\* what response.json() can resolve to: null ("data" missing), an object
\* whose response, body or items is missing, or a full envelope.  Only the
\* list endpoints read totalCount, pageNo and numOfRows.
BrokenEnvelopes ==
  {Envelope(m, Undefined, Undefined, Undefined, Undefined) :
     m \in {"data", "response", "body", "items"}}
ListEnvelopes ==
  BrokenEnvelopes \cup
  {Envelope("none", i, c, q, r) :
     i \in ItemValues, c \in CountValues, q \in PageValues, r \in PageValues}
DetailEnvelopes ==
  BrokenEnvelopes \cup
  {Envelope("none", i, Undefined, Undefined, Undefined) : i \in ItemValues}
Envelopes(ep) == IF ep \in ListEndpoints THEN ListEnvelopes ELSE DetailEnvelopes

NoData == [missing |-> "unread"]
NoEnv == [isServer |-> FALSE, unset |-> TRUE]

JsonSyntaxError == JsError("SyntaxError", "Unexpected token < in JSON")

(***************************************************************************)
(* One call of an endpoint client, as a state machine.                     *)
(***************************************************************************)
VARIABLES
  pc,          \* "idle", "fetch" (an attempt is in flight), "sleep", "json", "done"
  env,         \* the environment the call reads the credential from
  endpoint,    \* the endpoint client called
  params,      \* its parameters
  url,         \* the URL it built
  attempt,     \* the loop counter of fetchWithRetry
  lastError,   \* the lastError of fetchWithRetry
  attempts,    \* number of network attempts made so far
  sleeps,      \* the backoff delays slept so far, in order
  lastAnswer,  \* the answer to the latest attempt
  n5xx,        \* number of attempts answered with a status >= 500
  nExc,        \* number of attempts that ended in a transport exception
  data,        \* the body response.json() resolved to
  result       \* the outcome of the call

callVars ==
  <<pc, env, endpoint, params, url, attempt, lastError, attempts, sleeps,
    lastAnswer, n5xx, nExc, data, result>>

\* one call of an aggregator of stats-api.ts
VARIABLES
  spc,           \* "idle", "areaCode" (getAreaCode awaited), "fanout", "done"
  aggregate,     \* the aggregator called
  branches,      \* the regions or content types fanned out over, in order
  results,       \* per branch: Pending, or what its callback returned
  areaCodeCalls, \* number of getAreaCode calls made
  listCalls,     \* per branch: the parameters of its getAreaBasedList calls
  statsResult,   \* the outcome of the aggregator
  itemless       \* the branches whose query was answered OK without an item

statsVars ==
  <<spc, aggregate, branches, results, areaCodeCalls, listCalls, statsResult,
    itemless>>

\* the tail of one call of getTypeStats, from the resolved Promise.all on
VARIABLES
  collected,     \* the array Promise.all resolved to, one entry per content type
  typeStats      \* the outcome of getTypeStats

percentVars == <<collected, typeStats>>

\* one call of getStatsSummary
VARIABLES
  sumpc,          \* "idle", "called" (both aggregators are running)
  sumRegionStats, \* what getRegionStats() settled with, the array as it is now
  sumTypeStats,   \* what getTypeStats() settled with, the array as it is now
  summary         \* the outcome of getStatsSummary

summaryVars == <<sumpc, sumRegionStats, sumTypeStats, summary>>

\* the recommendation block of the detail page
VARIABLES
  recpc,           \* "idle", "tier1", "tier2" (a query is awaited), "done",
                   \* "failed" (the block threw)
  pageVersion,     \* which of the two page.tsx runs
  detailData,      \* the subject: what getDetailCommon returned
  recommendations, \* the recommendations so far
  sameAreaAndType, \* what the region-and-type query settled with
  sameType,        \* what the type-only query settled with
  recQueries       \* the parameters of the list queries issued, in order

recVars ==
  <<recpc, pageVersion, detailData, recommendations, sameAreaAndType, sameType,
    recQueries>>

\* one rendering of PlaceDetailContent
VARIABLES
  ppc,          \* "idle", the call awaited ("getDetailCommon", "auth", ...,
                \* "recommendations"), "left" (the component returned or threw)
  detailCommon, \* what getDetailCommon settled with
  isBookmarked, \* the page's locals
  introData,
  images,
  petInfo,
  view          \* what the component came to

pageVars == <<ppc, detailCommon, isBookmarked, introData, images, petInfo, view>>

\* one response body taken through parseApiResponse and normalizeToArray
VARIABLES
  envelope,   \* what response.json() resolved to
  parsed,     \* the outcome of parseApiResponse(envelope)
  normalized  \* normalizeToArray of what was parsed, then of its own result

parseVars == <<envelope, parsed, normalized>>

\* the bookmark helpers of supabase-bookmark.ts, called for one Clerk user
\* and one content id, and the two tables they work on
VARIABLES
  userRow,      \* whether users holds the row of the Clerk user
  bookmarkRows, \* the rows of bookmarks for the user and the content id
  rowsInserted, \* number of bookmark rows inserted so far
  calls,        \* per caller: the call it is in, or was in last
  callsStarted, \* number of calls made
  overlapped    \* whether two calls were ever under way at once

bookmarkVars == <<userRow, bookmarkRows, rowsInserted, calls, callsStarted, overlapped>>

vars == <<callVars, statsVars, percentVars, summaryVars, recVars, pageVars, parseVars, bookmarkVars>>

\* what an action of one part of the program leaves alone
notCallVars == <<statsVars, percentVars, summaryVars, recVars, pageVars, parseVars, bookmarkVars>>
notStatsVars == <<callVars, percentVars, summaryVars, recVars, pageVars, parseVars, bookmarkVars>>
notPercentVars == <<callVars, statsVars, summaryVars, recVars, pageVars, parseVars, bookmarkVars>>
notSummaryVars == <<callVars, statsVars, percentVars, recVars, pageVars, parseVars, bookmarkVars>>
notRecVars == <<callVars, statsVars, percentVars, summaryVars, pageVars, parseVars, bookmarkVars>>
notPageVars == <<callVars, statsVars, percentVars, summaryVars, parseVars, bookmarkVars>>
notParseVars == <<callVars, statsVars, percentVars, summaryVars, recVars, pageVars, bookmarkVars>>
notBookmarkVars == <<callVars, statsVars, percentVars, summaryVars, recVars, pageVars, parseVars>>

Init ==
  /\ pc = "idle"
  /\ env = NoEnv
  /\ endpoint = ""
  /\ params = <<>>
  /\ url = NoUrl
  /\ attempt = 0
  /\ lastError = Null
  /\ attempts = 0
  /\ sleeps = <<>>
  /\ lastAnswer = NoAnswer
  /\ n5xx = 0
  /\ nExc = 0
  /\ data = NoData
  /\ result = NoResult
  /\ spc = "idle"
  /\ aggregate = ""
  /\ branches = <<>>
  /\ results = <<>>
  /\ areaCodeCalls = 0
  /\ listCalls = <<>>
  /\ statsResult = NoResult
  /\ itemless = {}
  /\ collected = <<>>
  /\ typeStats = NoResult
  /\ sumpc = "idle"
  /\ sumRegionStats = NoResult
  /\ sumTypeStats = NoResult
  /\ summary = NoResult
  /\ recpc = "idle"
  /\ pageVersion = ""
  /\ detailData = Null
  /\ recommendations = <<>>
  /\ sameAreaAndType = NoResult
  /\ sameType = NoResult
  /\ recQueries = <<>>
  /\ ppc = "idle"
  /\ detailCommon = NoResult
  /\ isBookmarked = FALSE
  /\ introData = Null
  /\ images = Arr(<<>>)
  /\ petInfo = Null
  /\ view = NoResult
  /\ envelope = NoData
  /\ parsed = NoResult
  /\ normalized = <<>>
  /\ userRow = FALSE
  /\ bookmarkRows = {}
  /\ rowsInserted = 0
  /\ calls = [c \in 1..MaxCallers |->
               [op |-> "", at |-> "idle", existing |-> Null, before |-> {},
                result |-> NoResult, left |-> {}]]
  /\ callsStarted = 0
  /\ overlapped = FALSE

\* The client is called: it builds the URL (which reads the credential) and
\* enters fetchWithRetry, whose first attempt goes out.
Call(ep, p, e) ==
  /\ pc = "idle"
  /\ endpoint' = ep
  /\ params' = p
  /\ env' = e
  /\ LET key == getApiKey(e) IN
     IF key.kind = "throw"
     THEN /\ result' = Settle(ep, key)
          /\ pc' = "done"
          /\ url' = url
     ELSE /\ url' = UrlOf(ep, p, key.value)
          /\ pc' = "fetch"
          /\ result' = result
  /\ UNCHANGED <<attempt, lastError, attempts, sleeps, lastAnswer, n5xx, nExc, data>>
  /\ UNCHANGED notCallVars

\* The attempt in flight is answered; fetchWithRetry runs to its next
\* suspension point and, when it returns or throws, so does the client.
AttemptAnswered(answer) ==
  /\ pc = "fetch"
  /\ attempts' = attempts + 1
  /\ lastAnswer' = answer
  /\ n5xx' = IF answer.kind = "response" /\ answer.status >= 500
             THEN n5xx + 1 ELSE n5xx
  /\ nExc' = IF answer.kind = "exception" THEN nExc + 1 ELSE nExc
  /\ LET step == fetchWithRetry(attempt, lastError, answer) IN
     /\ lastError' = step.lastError
     /\ CASE step.kind = "sleep" ->
               /\ sleeps' = Append(sleeps, step.delay)
               /\ pc' = "sleep"
               /\ result' = result
          [] step.kind = "throw" ->
               /\ sleeps' = sleeps
               /\ pc' = "done"
               /\ result' = Settle(endpoint, Throw(step.error))
          [] step.kind = "return" ->
               LET next == OnResponse(endpoint, step.response.status) IN
               /\ sleeps' = sleeps
               /\ pc' = IF next.kind = "json" THEN "json" ELSE "done"
               /\ result' = IF next.kind = "json" THEN result
                            ELSE Settle(endpoint, next)
  /\ UNCHANGED <<env, endpoint, params, url, attempt, data>>
  /\ UNCHANGED notCallVars

\* The backoff sleep ends: the loop goes to its next iteration.
Wake ==
  /\ pc = "sleep"
  /\ attempt' = attempt + 1
  /\ pc' = "fetch"
  /\ UNCHANGED <<env, endpoint, params, url, lastError, attempts, sleeps,
                 lastAnswer, n5xx, nExc, data, result>>
  /\ UNCHANGED notCallVars

\* response.json() resolves: the client normalizes the body and finishes.
JsonResolves(d) ==
  /\ pc = "json"
  /\ data' = d
  /\ result' = Settle(endpoint, OnData(endpoint, params, d))
  /\ pc' = "done"
  /\ UNCHANGED <<env, endpoint, params, url, attempt, lastError, attempts, sleeps,
                 lastAnswer, n5xx, nExc>>
  /\ UNCHANGED notCallVars

\* response.json() rejects (the body is not JSON).
JsonRejects ==
  /\ pc = "json"
  /\ result' = Settle(endpoint, Throw(JsonSyntaxError))
  /\ pc' = "done"
  /\ UNCHANGED <<env, endpoint, params, url, attempt, lastError, attempts, sleeps,
                 lastAnswer, n5xx, nExc, data>>
  /\ UNCHANGED notCallVars

Next ==
  \/ \E ep \in Endpoints : \E p \in Requests(ep) : \E e \in Environments : Call(ep, p, e)
  \/ \E answer \in Answers : AttemptAnswered(answer)
  \/ Wake
  \/ \E d \in Envelopes(endpoint) : JsonResolves(d)
  \/ JsonRejects

Spec == Init /\ [][Next]_vars

(***************************************************************************)
(* The /api/tour route: GET awaits the endpoint client and answers with    *)
(* its data, or with what handleError makes of what it threw.              *)
(***************************************************************************)
HttpResponse(status, body) == [status |-> status, body |-> body]

\* error.message.includes("Missing required parameter") ||
\* error.message.includes("Invalid")
IsParameterMessage(message) ==
  \E i \in DOMAIN message :
    message[i] \in {"Missing required parameter: contentId",
                    "Invalid number parameter: numOfRows", ItemsMissingMessage}

handleError_Always500(error) ==
  HttpResponse(Num(500),
               [success |-> FALSE, error |-> <<"Internal server error">>,
                statusCode |-> Num(500)])

handleError(error) ==
  IF IsTourApiError(error)
  THEN LET statusCode == OrElse(error.statusCode, Num(500)) IN
       HttpResponse(statusCode,
                    [success |-> FALSE, error |-> error.message, statusCode |-> statusCode])
  ELSE IF IsParameterMessage(MessageOf(error))
  THEN HttpResponse(Num(400),
                    [success |-> FALSE, error |-> MessageOf(error), statusCode |-> Num(400)])
  ELSE HttpResponse(Num(500),
                    [success |-> FALSE, error |-> <<"Internal server error">>,
                     statusCode |-> Num(500)])

\* the answer of GET once the endpoint client it awaits has settled
GET(outcome) ==
  IF outcome.kind = "throw" THEN handleError(outcome.error)
  ELSE HttpResponse(Num(200), [success |-> TRUE, data |-> outcome.value])

RECURSIVE SumSeq(_)
SumSeq(q) == IF q = <<>> THEN 0 ELSE Head(q) + SumSeq(Tail(q))

Min(a, b) == IF a < b THEN a ELSE b

(***************************************************************************)
(* The aggregators of stats-api.ts.  A branch of a fan-out is one call of  *)
(* getAreaBasedList; what it settles with is what that client makes of     *)
(* the upstream's behaviour.                                               *)
(***************************************************************************)
AreaObj(code, name) == [t |-> "object", code |-> code, name |-> name]

\* the provider's regions, in the order of its code list
RegionCatalogue ==
  <<AreaObj("1", "Seoul"), AreaObj("2", "Incheon"), AreaObj("3", "Daejeon"),
    AreaObj("4", "Daegu"), AreaObj("5", "Gwangju"), AreaObj("6", "Busan"),
    AreaObj("7", "Ulsan"), AreaObj("8", "Sejong")>>

\* getAllContentTypes(): Object.values(CONTENT_TYPES)
getAllContentTypes ==
  <<[id |-> "12", name |-> "tourist attraction"], [id |-> "14", name |-> "cultural facility"],
    [id |-> "15", name |-> "festival"], [id |-> "25", name |-> "travel course"],
    [id |-> "28", name |-> "leisure sports"], [id |-> "32", name |-> "accommodation"],
    [id |-> "38", name |-> "shopping"], [id |-> "39", name |-> "restaurant"]>>

\* what one upstream exchange comes to for a client: fetchWithRetry threw, or
\* the response was OK and its body parsed to an envelope
FetchFailed(error) == [kind |-> "error", error |-> error]
FetchedData(d) == [kind |-> "data", data |-> d]

\* the outcome of an endpoint client for such an exchange
ClientOutcome(ep, p, upstream) ==
  IF upstream.kind = "error"
  THEN Settle(ep, Throw(upstream.error))
  ELSE Settle(ep, OnData(ep, p, upstream.data))

\* the envelope is syntactically valid and carries no item
ItemAbsent(d) ==
  \/ d.missing \in {"response", "body", "items"}
  \/ d.missing = "none" /\ (d.item = Undefined \/ d.item = Null)

\* the exchange ended in an OK response whose envelope carries no item
Itemless(upstream) == upstream.kind = "data" /\ ItemAbsent(upstream.data)

\* the parameters of the two list calls of the aggregators, and of getAreaCode()
NoParams == ("numOfRows" :> Undefined) @@ ("pageNo" :> Undefined)
CountParams == ("numOfRows" :> Num(1)) @@ ("pageNo" :> Num(1))
RegionCountParams(area) == ("areaCode" :> Str(area.code)) @@ CountParams
TypeCountParams(type) == ("contentTypeId" :> Str(type.id)) @@ CountParams

\* upstream behaviours for getAreaCode(): a failure, an envelope without
\* item, a single region as a bare object, and the first n regions as an array
AreaCodeUpstreams ==
  {FetchFailed(ServerStatusError(503)),
   FetchedData(Envelope("items", Undefined, Undefined, Undefined, Undefined)),
   FetchedData(Envelope("none", RegionCatalogue[1], Num(1), Num(1), Num(10)))}
  \cup
  {FetchedData(Envelope("none", Arr(SubSeq(RegionCatalogue, 1, n)), Num(n), Num(1), Num(10))) :
     n \in 0..MaxRegions}

\* upstream behaviours for a count query of a region: failures, an envelope
\* without item, an empty item array, and one item with a totalCount
RegionCountUpstreams ==
  {FetchFailed(ServerStatusError(503)), FetchFailed(ClientStatusError(400)),
   FetchedData(Envelope("items", Undefined, Num(0), Num(1), Num(1))),
   FetchedData(Envelope("none", Arr(<<>>), Undefined, Num(1), Num(1)))}
  \cup
  {FetchedData(Envelope("none", Arr(<<Obj("125266")>>), c, Num(1), Num(1))) :
     c \in CountValues}

\* upstream behaviours for a count query of a content type
TypeCountUpstreams ==
  {FetchFailed(ServerStatusError(503)),
   FetchedData(Envelope("items", Undefined, Num(0), Num(1), Num(1))),
   FetchedData(Envelope("none", Arr(<<Obj("125266")>>), Num(1), Num(1), Num(1))),
   FetchedData(Envelope("none", Arr(<<Obj("125266")>>), Num(MaxCount), Num(1), Num(1)))}

Pending == [t |-> "pending"]

\* the callback of areaCodes.map: a RegionStats, or null when the query threw
RegionBranch(area, outcome) ==
  IF outcome.kind = "return"
  THEN [code |-> area.code, name |-> area.name, count |-> outcome.value.totalCount]
  ELSE Null

\* the callback of contentTypes.map
TypeBranch(type, outcome) ==
  IF outcome.kind = "return"
  THEN [contentTypeId |-> type.id, typeName |-> type.name,
        count |-> outcome.value.totalCount]
  ELSE Null

\* results.filter((r) => r !== null)
ValidResults(rs) == SelectSeq(rs, LAMBDA r : r # Null)

(***************************************************************************)
(* The arithmetic of a JS number (IEEE-754 binary64, round to nearest,     *)
(* ties to even) as far as the percentage of getTypeStats needs it.  A     *)
(* positive double is the bits of its significand, most significant first  *)
(* (the first one is 1), and the exponent of that first bit: its value is  *)
(* b1.b2...b53 (binary) * 2^exp.                                           *)
(***************************************************************************)
Precision == 53

Double(bits, exp) == [bits |-> bits, exp |-> exp]
Zero == [bits |-> <<>>, exp |-> 0]

\* the integer a sequence of bits stands for
RECURSIVE BitsToInt(_)
BitsToInt(bits) ==
  IF bits = <<>> THEN 0
  ELSE 2 * BitsToInt(SubSeq(bits, 1, Len(bits) - 1)) + bits[Len(bits)]

\* the last width bits of a natural number
BitsOf(n, width) == [i \in 1..width |-> (n \div 2^(width - i)) % 2]

\* bits from the first 1 on
StripLeadingZeros(bits) ==
  LET first == CHOOSE i \in DOMAIN bits : bits[i] = 1 /\ \A j \in 1..(i - 1) : bits[j] = 0
  IN SubSeq(bits, first, Len(bits))

\* bits that are not all 1, plus one unit in the last place
Increment(bits) ==
  LET p == CHOOSE i \in DOMAIN bits :
             bits[i] = 0 /\ \A j \in (i + 1)..Len(bits) : bits[j] = 1
  IN [i \in DOMAIN bits |-> IF i < p THEN bits[i] ELSE IF i = p THEN 1 ELSE 0]

\* the double nearest to an exact significand of Precision bits or more
RoundToPrecision(bits, exp) ==
  LET kept == SubSeq(bits, 1, Precision)
      guard == IF Len(bits) > Precision THEN bits[Precision + 1] ELSE 0
      sticky == \E i \in (Precision + 2)..Len(bits) : bits[i] = 1
      up == guard = 1 /\ (sticky \/ kept[Precision] = 1)
  IN IF ~up THEN Double(kept, exp)
     ELSE IF \A i \in DOMAIN kept : kept[i] = 1
          THEN Double([i \in DOMAIN kept |-> IF i = 1 THEN 1 ELSE 0], exp + 1)
          ELSE Double(Increment(kept), exp)

\* a significand is divided and multiplied in groups of LimbBits bits
LimbBits == 9

\* the groups of bits, most significant first, as integers
LimbsOf(bits) ==
  LET n == (Len(bits) + LimbBits - 1) \div LimbBits
      pad == n * LimbBits - Len(bits)
      padded == [i \in 1..(n * LimbBits) |-> IF i <= pad THEN 0 ELSE bits[i - pad]]
  IN [j \in 1..n |-> BitsToInt(SubSeq(padded, LimbBits * (j - 1) + 1, LimbBits * j))]

\* the bits of groups
BitsOfLimbs(limbs) ==
  [i \in 1..(LimbBits * Len(limbs)) |->
     (limbs[((i - 1) \div LimbBits) + 1] \div 2^(LimbBits - 1 - ((i - 1) % LimbBits))) % 2]

\* long division: the next n groups of the quotient by t when r < t is what
\* is left, and what is left after them
RECURSIVE QuotientLimbs(_, _, _)
QuotientLimbs(r, t, n) ==
  IF n = 0 THEN [limbs |-> <<>>, rest |-> r]
  ELSE LET next == QuotientLimbs((r * 2^LimbBits) % t, t, n - 1)
       IN [limbs |-> <<(r * 2^LimbBits) \div t>> \o next.limbs, rest |-> next.rest]

\* the k with t <= c * 2^k
RECURSIVE LeadingShift(_, _)
LeadingShift(c, t) == IF c >= t THEN 0 ELSE 1 + LeadingShift(2 * c, t)

\* c / t for integers 0 <= c <= t, t > 0: the leading 1 of the quotient, the
\* groups that hold the Precision + 1 bits after it, and one more bit telling
\* whether anything is left, rounded
Divide(c, t) ==
  IF c = 0 THEN Zero
  ELSE LET k == LeadingShift(c, t)
           q == QuotientLimbs(c * 2^k - t, t, (Precision + LimbBits) \div LimbBits)
       IN RoundToPrecision(<<1>> \o BitsOfLimbs(q.limbs) \o <<IF q.rest > 0 THEN 1 ELSE 0>>,
                           -k)

\* limbs * factor + carry, for factor and carry below 2^LimbBits
RECURSIVE TimesLimbs(_, _, _)
TimesLimbs(limbs, factor, carry) ==
  IF limbs = <<>> THEN <<carry>>
  ELSE LET v == limbs[Len(limbs)] * factor + carry
       IN Append(TimesLimbs(SubSeq(limbs, 1, Len(limbs) - 1), factor, v \div 2^LimbBits),
                 v % 2^LimbBits)

\* x * factor for a small positive integer factor
Times(x, factor) ==
  IF x = Zero THEN Zero
  ELSE LET product == StripLeadingZeros(BitsOfLimbs(TimesLimbs(LimbsOf(x.bits), factor, 0)))
       IN RoundToPrecision(product, x.exp + Len(product) - Len(x.bits))

\* Math.round(x) for x >= 0: the nearest integer, a tie going up
MathRound(x) ==
  IF x = Zero \/ x.exp < -1 THEN 0
  ELSE IF x.exp = -1 THEN 1
  ELSE BitsToInt(SubSeq(x.bits, 1, x.exp + 1)) + x.bits[x.exp + 2]

\* Math.round((count / total) * 100 * 10)
RoundedTenths(count, total) == MathRound(Times(Times(Divide(count, total), 100), 10))

\* the same, computed once for the counts and totals of the model
RoundedTenthsTable ==
  [total \in 1..(Len(getAllContentTypes) * (MaxTypeCount + MaxCount)) |->
     [count \in 0..(MaxTypeCount + MaxCount) |->
        IF count <= total THEN RoundedTenths(count, total) ELSE 0]]

\* total > 0 ? Math.round((r.count / total) * 100 * 10) / 10 : 0, in tenths
\* of a percent: the percentage is the double nearest to a tenth of it
PercentageTenths(count, total) ==
  IF total > 0
  THEN IF total \in DOMAIN RoundedTenthsTable /\ count \in DOMAIN RoundedTenthsTable[total]
       THEN RoundedTenthsTable[total][count]
       ELSE RoundedTenths(count, total)
  ELSE 0

\* a join that fails as soon as one branch failed
RegionStatsJoin_FailOnAny(rs) ==
  LET validResults == ValidResults(rs) IN
  IF Len(validResults) < Len(rs) \/ Len(rs) = 0
  THEN RethrowOrWrap("Failed to get region stats: ",
         TourApiError(<<"Failed to get region stats: All area queries failed">>,
                      Undefined, Undefined))
  ELSE Return(Arr(validResults))

\* getRegionStats from the settled results to its outcome
RegionStatsJoin(rs) ==
  LET validResults == ValidResults(rs) IN
  IF Len(validResults) = 0
  THEN RethrowOrWrap("Failed to get region stats: ",
         TourApiError(<<"Failed to get region stats: All area queries failed">>,
                      Undefined, Undefined))
  ELSE Return(Arr(validResults))

\* getTypeStats from the settled results to its outcome; a percentage is kept
\* in tenths of a percent
TypeStatsJoin(rs) ==
  LET validResults == ValidResults(rs) IN
  IF Len(validResults) = 0
  THEN RethrowOrWrap("Failed to get type stats: ",
         TourApiError(<<"Failed to get type stats: All content type queries failed">>,
                      Undefined, Undefined))
  ELSE LET total == SumSeq([i \in 1..Len(validResults) |-> validResults[i].count.v])
       IN Return(Arr([i \in 1..Len(validResults) |->
            [contentTypeId |-> validResults[i].contentTypeId,
             typeName |-> validResults[i].typeName,
             count |-> validResults[i].count,
             percentageTenths |-> PercentageTenths(validResults[i].count.v, total)]]))

AllSettled(rs) == \A i \in DOMAIN rs : rs[i] # Pending

\* getRegionStats is called: it awaits getAreaCode().
StartRegionStats ==
  /\ spc = "idle"
  /\ aggregate' = "getRegionStats"
  /\ areaCodeCalls' = areaCodeCalls + 1
  /\ spc' = "areaCode"
  /\ UNCHANGED <<branches, results, listCalls, statsResult, itemless>>
  /\ UNCHANGED notStatsVars

\* getAreaCode() settles: on a throw getRegionStats rethrows; otherwise it
\* issues one count query per region and awaits them all (at once done when
\* there is no region).
AreaCodeSettles(upstream) ==
  /\ spc = "areaCode"
  /\ LET outcome == ClientOutcome("getAreaCode", NoParams, upstream) IN
     IF outcome.kind = "throw"
     THEN /\ statsResult' = RethrowOrWrap("Failed to get region stats: ", outcome.error)
          /\ spc' = "done"
          /\ UNCHANGED <<branches, results, listCalls>>
     ELSE LET areaCodes == outcome.value.v IN
          /\ branches' = areaCodes
          /\ results' = [i \in 1..Len(areaCodes) |-> Pending]
          /\ listCalls' = [i \in 1..Len(areaCodes) |-> <<RegionCountParams(areaCodes[i])>>]
          /\ IF Len(areaCodes) = 0
             THEN /\ statsResult' = RegionStatsJoin(<<>>)
                  /\ spc' = "done"
             ELSE /\ statsResult' = statsResult
                  /\ spc' = "fanout"
  /\ UNCHANGED <<aggregate, areaCodeCalls, itemless>>
  /\ UNCHANGED notStatsVars

\* getTypeStats is called: it issues one count query per content type and
\* awaits them all.
StartTypeStats ==
  /\ spc = "idle"
  /\ aggregate' = "getTypeStats"
  /\ branches' = getAllContentTypes
  /\ results' = [i \in 1..Len(getAllContentTypes) |-> Pending]
  /\ listCalls' = [i \in 1..Len(getAllContentTypes) |->
                     <<TypeCountParams(getAllContentTypes[i])>>]
  /\ spc' = "fanout"
  /\ UNCHANGED <<areaCodeCalls, statsResult, itemless>>
  /\ UNCHANGED notStatsVars

\* a fan-out that issues the count query of a failed branch once more
BranchSettles_Reissue(i, upstream) ==
  /\ spc = "fanout"
  /\ i \in DOMAIN results
  /\ results[i] = Pending
  /\ LET outcome == ClientOutcome("getAreaBasedList", listCalls[i][1], upstream)
         settled == IF aggregate = "getRegionStats"
                    THEN RegionBranch(branches[i], outcome)
                    ELSE TypeBranch(branches[i], outcome)
         again == settled = Null /\ Len(listCalls[i]) = 1
         rs == [results EXCEPT ![i] = IF again THEN Pending ELSE settled]
     IN /\ results' = rs
        /\ listCalls' = IF again
                        THEN [listCalls EXCEPT ![i] = Append(@, listCalls[i][1])]
                        ELSE listCalls
        /\ IF AllSettled(rs)
           THEN /\ statsResult' = IF aggregate = "getRegionStats"
                                  THEN RegionStatsJoin(rs) ELSE TypeStatsJoin(rs)
                /\ spc' = "done"
           ELSE /\ statsResult' = statsResult
                /\ spc' = spc
  /\ itemless' = IF Itemless(upstream) THEN itemless \cup {i} ELSE itemless
  /\ UNCHANGED <<aggregate, branches, areaCodeCalls>>
  /\ UNCHANGED notStatsVars

\* a fan-out whose callbacks do not catch: Promise.all rejects with the first
\* failure, whatever is still pending
BranchSettles_FailFast(i, upstream) ==
  /\ spc = "fanout"
  /\ i \in DOMAIN results
  /\ results[i] = Pending
  /\ LET outcome == ClientOutcome("getAreaBasedList", listCalls[i][1], upstream)
         settled == IF aggregate = "getRegionStats"
                    THEN RegionBranch(branches[i], outcome)
                    ELSE TypeBranch(branches[i], outcome)
         rs == [results EXCEPT ![i] = settled]
     IN /\ results' = rs
        /\ IF outcome.kind = "throw"
           THEN /\ statsResult' = RethrowOrWrap("Failed to get stats: ", outcome.error)
                /\ spc' = "done"
           ELSE IF AllSettled(rs)
           THEN /\ statsResult' = IF aggregate = "getRegionStats"
                                  THEN RegionStatsJoin(rs) ELSE TypeStatsJoin(rs)
                /\ spc' = "done"
           ELSE /\ statsResult' = statsResult
                /\ spc' = spc
  /\ itemless' = IF Itemless(upstream) THEN itemless \cup {i} ELSE itemless
  /\ UNCHANGED <<aggregate, branches, areaCodeCalls, listCalls>>
  /\ UNCHANGED notStatsVars

\* The count query of branch i settles; when it is the last one, Promise.all
\* resolves and the aggregator finishes.
BranchSettles(i, upstream) ==
  /\ spc = "fanout"
  /\ i \in DOMAIN results
  /\ results[i] = Pending
  /\ LET outcome == ClientOutcome("getAreaBasedList", listCalls[i][1], upstream)
         settled == IF aggregate = "getRegionStats"
                    THEN RegionBranch(branches[i], outcome)
                    ELSE TypeBranch(branches[i], outcome)
         rs == [results EXCEPT ![i] = settled]
     IN /\ results' = rs
        /\ IF AllSettled(rs)
           THEN /\ statsResult' = IF aggregate = "getRegionStats"
                                  THEN RegionStatsJoin(rs) ELSE TypeStatsJoin(rs)
                /\ spc' = "done"
           ELSE /\ statsResult' = statsResult
                /\ spc' = spc
  /\ itemless' = IF Itemless(upstream) THEN itemless \cup {i} ELSE itemless
  /\ UNCHANGED <<aggregate, branches, areaCodeCalls, listCalls>>
  /\ UNCHANGED notStatsVars

BranchUpstreams ==
  IF aggregate = "getRegionStats" THEN RegionCountUpstreams ELSE TypeCountUpstreams

NextStats ==
  \/ StartRegionStats
  \/ \E upstream \in AreaCodeUpstreams : AreaCodeSettles(upstream)
  \/ StartTypeStats
  \/ \E i \in 1..Len(results) : \E upstream \in BranchUpstreams : BranchSettles(i, upstream)

SpecStats == Init /\ [][NextStats]_vars

(***************************************************************************)
(* getTypeStats from the point where every count query has settled: the    *)
(* first three content types succeeded or failed, the other ones failed.   *)
(***************************************************************************)
\* what the callback of contentTypes.map returns for a query that counted n
CountedType(i, n) == TypeBranch(getAllContentTypes[i], Return([totalCount |-> Num(n)]))

\* what it can return for content type i
TypeOutcomes(i) == {Null} \cup {CountedType(i, n) : n \in 0..MaxTypeCount}

SettledTypeResults ==
  {[i \in 1..Len(getAllContentTypes) |->
      IF i = 1 THEN a ELSE IF i = 2 THEN b ELSE IF i = 3 THEN c ELSE Null] :
     a \in TypeOutcomes(1), b \in TypeOutcomes(2), c \in TypeOutcomes(3)}

\* Promise.all resolves; getTypeStats filters, totals and returns.
TypeCountsCollected ==
  /\ typeStats = NoResult
  /\ \E rs \in SettledTypeResults :
       /\ collected' = rs
       /\ typeStats' = TypeStatsJoin(rs)
  /\ UNCHANGED notPercentVars

NextPercent == TypeCountsCollected

SpecPercent == Init /\ [][NextPercent]_vars

(***************************************************************************)
(* getStatsSummary: both aggregators run concurrently and are awaited with *)
(* Promise.all, which rejects with the first rejection and resolves when   *)
(* both have resolved.                                                     *)
(***************************************************************************)
\* the comparator of both sorts: (a, b) => b.count - a.count
CompareCount_Ascending(a, b) == a.count.v - b.count.v

CompareCount(a, b) == b.count.v - a.count.v

\* Array.prototype.sort, which is stable: an element goes before the first
\* one the comparator puts it strictly before
RECURSIVE InsertSorted(_, _)
InsertSorted(x, sorted) ==
  IF sorted = <<>> THEN <<x>>
  ELSE IF CompareCount(x, Head(sorted)) < 0 THEN <<x>> \o sorted
       ELSE <<Head(sorted)>> \o InsertSorted(x, Tail(sorted))

RECURSIVE ArraySort(_)
ArraySort(a) ==
  IF a = <<>> THEN <<>>
  ELSE InsertSorted(a[Len(a)], ArraySort(SubSeq(a, 1, Len(a) - 1)))

\* a.slice(0, end)
SliceFromStart(a, end) == SubSeq(a, 1, Min(end, Len(a)))

\* [...stats].sort(...).slice(0, 3): the copy is sorted, stats is left as it is
TopStats(stats) == [stats |-> stats, top |-> SliceFromStart(ArraySort(stats), 3)]

\* typeStats.reduce((sum, t) => sum + t.count, 0)
SummaryTotalCount_FromRegions(regions, types) ==
  SumSeq([i \in DOMAIN regions |-> regions[i].count.v])

SummaryTotalCount(regions, types) ==
  SumSeq([i \in DOMAIN types |-> types[i].count.v])

\* new Date().toISOString() at two moments
Timestamps == {"2025-01-01T00:00:00.000Z", "2025-01-01T00:00:01.000Z"}

\* the StatsSummary of lines 172-192
StatsSummaryOf(regions, types, now) ==
  [totalCount |-> Num(SummaryTotalCount(regions, types)),
   topRegions |-> Arr(TopStats(regions).top),
   topTypes |-> Arr(TopStats(types).top),
   lastUpdated |-> Str(now)]

\* the counts of the successful queries of an aggregator whose first k
\* queries succeeded
StatCounts == UNION {[1..k -> 0..MaxStatCount] : k \in 1..MaxStats}

\* what getRegionStats() can settle with: it threw, or it returned the stats
\* of the first k regions of the code list
RegionStatsOutcomes ==
  {RegionStatsJoin(<<>>)} \cup
  {RegionStatsJoin([i \in DOMAIN counts |->
      RegionBranch(RegionCatalogue[i], Return([totalCount |-> Num(counts[i])]))]) :
     counts \in StatCounts}

\* what getTypeStats() can settle with: it threw, or it returned the stats of
\* the first k content types, the queries of the other ones having failed
TypeStatsOutcomes ==
  {TypeStatsJoin([i \in DOMAIN getAllContentTypes |-> Null])} \cup
  {TypeStatsJoin([i \in DOMAIN getAllContentTypes |->
      IF i \in DOMAIN counts THEN CountedType(i, counts[i]) ELSE Null]) :
     counts \in StatCounts}

\* getStatsSummary is called: it calls getRegionStats() and getTypeStats().
StartSummary ==
  /\ sumpc = "idle"
  /\ sumpc' = "called"
  /\ UNCHANGED <<sumRegionStats, sumTypeStats, summary>>
  /\ UNCHANGED notSummaryVars

\* a getStatsSummary that waits for both aggregators and builds its summary
\* from those that succeeded
SummaryAfter_Partial(region, type, now) ==
  IF summary # NoResult \/ region = NoResult \/ type = NoResult
  THEN [summary |-> summary, region |-> region, type |-> type]
  ELSE IF region.kind = "throw" /\ type.kind = "throw"
  THEN [summary |-> RethrowOrWrap("Failed to get stats summary: ", region.error),
        region |-> region, type |-> type]
  ELSE [summary |-> Return(StatsSummaryOf(
                      IF region.kind = "return" THEN region.value.v ELSE <<>>,
                      IF type.kind = "return" THEN type.value.v ELSE <<>>, now)),
        region |-> region, type |-> type]

\* what getStatsSummary settles with once its two aggregators stand as given
SummaryAfter(region, type, now) ==
  IF summary # NoResult THEN [summary |-> summary, region |-> region, type |-> type]
  ELSE IF region.kind = "throw" \/ type.kind = "throw"
  THEN [summary |-> RethrowOrWrap("Failed to get stats summary: ",
                                  IF region.kind = "throw" THEN region.error
                                  ELSE type.error),
        region |-> region, type |-> type]
  ELSE IF region.kind = "return" /\ type.kind = "return"
  THEN [summary |-> Return(StatsSummaryOf(region.value.v, type.value.v, now)),
        region |-> Return(Arr(TopStats(region.value.v).stats)),
        type |-> Return(Arr(TopStats(type.value.v).stats))]
  ELSE [summary |-> summary, region |-> region, type |-> type]

\* getRegionStats() settles.
RegionStatsSettles ==
  /\ sumpc = "called"
  /\ sumRegionStats = NoResult
  /\ \E outcome \in RegionStatsOutcomes : \E now \in Timestamps :
       LET after == SummaryAfter(outcome, sumTypeStats, now) IN
       /\ summary' = after.summary
       /\ sumRegionStats' = after.region
       /\ sumTypeStats' = after.type
  /\ UNCHANGED sumpc
  /\ UNCHANGED notSummaryVars

\* getTypeStats() settles.
TypeStatsSettles ==
  /\ sumpc = "called"
  /\ sumTypeStats = NoResult
  /\ \E outcome \in TypeStatsOutcomes : \E now \in Timestamps :
       LET after == SummaryAfter(sumRegionStats, outcome, now) IN
       /\ summary' = after.summary
       /\ sumRegionStats' = after.region
       /\ sumTypeStats' = after.type
  /\ UNCHANGED sumpc
  /\ UNCHANGED notSummaryVars

NextSummary ==
  \/ StartSummary
  \/ RegionStatsSettles
  \/ TypeStatsSettles

SpecSummary == Init /\ [][NextSummary]_vars

(***************************************************************************)
(* The recommendation block of PlaceDetailContent.  The page exists in two *)
(* versions: the cascade (region and type first, type only to fill up) and *)
(* app/places/[contentId]/page.tsx, which queries by type only.            *)
(***************************************************************************)
PageVersions == {"cascade", "typeOnly"}

MaxRecommendations == 6
RecommendationRows == 10

\* the subject's detailData as far as the block reads it
Subject(contentid, areacode) ==
  [t |-> "object", contentid |-> contentid, areacode |-> areacode,
   contenttypeid |-> Str("12")]

\* what the provider lists, in its order; the subject is its third entry
Listing == [i \in 1..(MaxListed + 1) |-> ToString(i)]
SubjectId == Listing[3]

\* a subject of a known region, of an empty one, and one without region
Subjects == {Subject(SubjectId, a) : a \in {Str("1"), Str(""), Undefined}}

\* the parameters of the two queries
SameAreaAndTypeParams(subject) ==
  ("areaCode" :> subject.areacode) @@ ("contentTypeId" :> subject.contenttypeid)
    @@ ("numOfRows" :> Num(RecommendationRows)) @@ ("pageNo" :> Num(1))
SameTypeParams(subject) ==
  ("contentTypeId" :> subject.contenttypeid)
    @@ ("numOfRows" :> Num(RecommendationRows)) @@ ("pageNo" :> Num(1))

Reverse(q) == [i \in 1..Len(q) |-> q[Len(q) + 1 - i]]

\* the stretches of a listing, the empty one included
Stretches(listing) ==
  {SubSeq(listing, i, j) : i \in 1..Len(listing), j \in 0..Len(listing)}

\* a short stretch whose first entry is listed once more at its end
Repeating(listing) ==
  {q \o <<q[1]>> : q \in {r \in Stretches(listing) : Len(r) \in 1..2}}

\* what the upstream can do for a list query that lists ids
Listed(ids) ==
  FetchedData(Envelope("none", Arr([i \in DOMAIN ids |-> Obj(ids[i])]),
                       Num(Len(ids)), Num(1), Num(RecommendationRows)))

ListFailures ==
  {FetchFailed(ServerStatusError(503)),
   FetchedData(Envelope("items", Undefined, Num(0), Num(1), Num(RecommendationRows)))}

\* the outcomes of the two calls of getAreaBasedList: the first lists in the
\* provider's order, the second in that order or in the reverse one
SameAreaAndTypeOutcomes ==
  {ClientOutcome("getAreaBasedList", SameAreaAndTypeParams(Subject(SubjectId, Str("1"))), u) :
     u \in ListFailures \cup {Listed(ids) : ids \in Stretches(Listing) \cup Repeating(Listing)}}

SameTypeOutcomes ==
  {ClientOutcome("getAreaBasedList", SameTypeParams(Subject(SubjectId, Str("1"))), u) :
     u \in ListFailures \cup
           {Listed(ids) : ids \in Stretches(Listing) \cup Repeating(Listing)
                                    \cup Stretches(Reverse(Listing))}}

\* items.filter((item) => item.contentid !== detailData.contentid)
NotSubject(items, subject) ==
  SelectSeq(items, LAMBDA item : item.contentid # subject.contentid)

\* ... && !recommendations.some((rec) => rec.contentid === item.contentid)
NotSelected_KeepAll(items, selected) == items

NotSelected(items, selected) ==
  SelectSeq(items, LAMBDA item :
    ~\E k \in DOMAIN selected : selected[k].contentid = item.contentid)

\* the catch of the region-and-type query, the one of the type-only query
\* and the one around both: each logs and goes on with what is selected
SameAreaAndTypeCatch_Rethrow(error, selected) == Throw(error)

SameAreaAndTypeCatch(error, selected) == Return(selected)

SameTypeCatch(error, selected) == Return(selected)

RecommendationsCatch(error, selected) == Return(selected)

\* the try block of the region-and-type query
AfterSameAreaAndType(outcome, subject, selected) ==
  IF outcome.kind = "return"
  THEN Return(SliceFromStart(NotSubject(outcome.value.items.v, subject),
                             MaxRecommendations))
  ELSE SameAreaAndTypeCatch(outcome.error, selected)

\* the try block of the type-only query, in the cascade
AfterSameType_WholeSlice(outcome, subject, selected) ==
  IF outcome.kind = "return"
  THEN Return(selected \o
              SliceFromStart(NotSelected(NotSubject(outcome.value.items.v, subject),
                                         selected),
                             MaxRecommendations))
  ELSE SameTypeCatch(outcome.error, selected)

AfterSameType(outcome, subject, selected) ==
  IF outcome.kind = "return"
  THEN Return(selected \o
              SliceFromStart(NotSelected(NotSubject(outcome.value.items.v, subject),
                                         selected),
                             MaxRecommendations - Len(selected)))
  ELSE SameTypeCatch(outcome.error, selected)

\* the try block of app/places/[contentId]/page.tsx
AfterTypeOnly(outcome, subject, selected) ==
  IF outcome.kind = "return"
  THEN Return(SliceFromStart(NotSubject(outcome.value.items.v, subject),
                             MaxRecommendations))
  ELSE RecommendationsCatch(outcome.error, selected)

\* The block is entered with recommendations = []: the cascade queries by
\* region and type when detailData.areacode is truthy, and otherwise, like
\* the type-only page, by type.
EnterRecommendations(subject, version) ==
  /\ detailData' = subject
  /\ pageVersion' = version
  /\ recommendations' = <<>>
  /\ IF version = "cascade" /\ Truthy(subject.areacode)
     THEN /\ recQueries' = <<SameAreaAndTypeParams(subject)>>
          /\ recpc' = "tier1"
     ELSE /\ recQueries' = <<SameTypeParams(subject)>>
          /\ recpc' = "tier2"
  /\ UNCHANGED <<sameAreaAndType, sameType>>

StartRecommendations(subject, version) ==
  /\ recpc = "idle"
  /\ EnterRecommendations(subject, version)
  /\ UNCHANGED notRecVars

\* where the block stands once a try block came to inner: what its catch let
\* through goes to the catch around both queries, and what that one lets
\* through leaves the block as an exception
Caught(inner, selected) ==
  IF inner.kind = "throw" THEN RecommendationsCatch(inner.error, selected) ELSE inner

\* a cascade that makes the type-only query whatever was selected
SameAreaAndTypeSettled_AlwaysFill(outcome) ==
  /\ LET inner == AfterSameAreaAndType(outcome, detailData, recommendations)
         after == Caught(inner, recommendations)
     IN
     /\ sameAreaAndType' = outcome
     /\ recommendations' = IF after.kind = "return" THEN after.value ELSE recommendations
     /\ recQueries' = Append(recQueries, SameTypeParams(detailData))
     /\ recpc' = "tier2"
  /\ UNCHANGED <<pageVersion, detailData, sameType>>

\* The region-and-type query settles; the type-only query follows when fewer
\* than six recommendations are there.
SameAreaAndTypeSettled(outcome) ==
  /\ LET inner == AfterSameAreaAndType(outcome, detailData, recommendations)
         after == Caught(inner, recommendations)
     IN
     /\ sameAreaAndType' = outcome
     /\ recommendations' = IF after.kind = "return" THEN after.value ELSE recommendations
     /\ IF inner.kind = "throw"
        THEN /\ recQueries' = recQueries
             /\ recpc' = IF after.kind = "return" THEN "done" ELSE "failed"
        ELSE IF Len(inner.value) < MaxRecommendations
        THEN /\ recQueries' = Append(recQueries, SameTypeParams(detailData))
             /\ recpc' = "tier2"
        ELSE /\ recQueries' = recQueries
             /\ recpc' = "done"
  /\ UNCHANGED <<pageVersion, detailData, sameType>>

SameAreaAndTypeSettles ==
  /\ recpc = "tier1"
  /\ \E outcome \in SameAreaAndTypeOutcomes : SameAreaAndTypeSettled(outcome)
  /\ UNCHANGED notRecVars

\* The type-only query settles; the block is left.
SameTypeSettled(outcome) ==
  /\ LET inner == IF pageVersion = "cascade"
                  THEN AfterSameType(outcome, detailData, recommendations)
                  ELSE AfterTypeOnly(outcome, detailData, recommendations)
         after == Caught(inner, recommendations)
     IN
     /\ sameType' = outcome
     /\ recommendations' = IF after.kind = "return" THEN after.value ELSE recommendations
     /\ recpc' = IF after.kind = "return" THEN "done" ELSE "failed"
  /\ UNCHANGED <<pageVersion, detailData, sameAreaAndType, recQueries>>

SameTypeSettles ==
  /\ recpc = "tier2"
  /\ \E outcome \in SameTypeOutcomes : SameTypeSettled(outcome)
  /\ UNCHANGED notRecVars

NextRecs ==
  \/ \E subject \in Subjects : \E version \in PageVersions :
       StartRecommendations(subject, version)
  \/ SameAreaAndTypeSettles
  \/ SameTypeSettles

SpecRecs == Init /\ [][NextRecs]_vars

(***************************************************************************)
(* PlaceDetailContent of the detail page, from one await to the next.  The *)
(* two versions of page.tsx differ in the recommendation block only.       *)
(***************************************************************************)
\* what the component comes to: notFound() was called, an ErrorDisplay, the
\* detail view with its sections, or an exception that left the component
NotFoundView == [kind |-> "notFound"]
ErrorDisplay(message) == [kind |-> "ErrorDisplay", message |-> message]
UncaughtView == [kind |-> "uncaught"]

\* the returned JSX: DetailInfo, the buttons and the map always, an optional
\* section when its data is there
DetailView(intro, imgs, pet, recs) ==
  [kind |-> "detail",
   sections |-> {"DetailInfo", "BookmarkButton", "ShareButton", "DetailMap"}
                  \cup (IF Truthy(intro) THEN {"DetailIntro"} ELSE {})
                  \cup (IF Len(imgs.v) > 0 THEN {"DetailGallery"} ELSE {})
                  \cup (IF Truthy(pet) THEN {"DetailPetTour"} ELSE {})
                  \cup (IF Len(recs) > 0 THEN {"Recommendations"} ELSE {})]

\* the catch of the first try block
DetailCatch(err) ==
  IF IsTourApiError(err)
  THEN IF err.statusCode = Num(NotFoundStatus)
       THEN NotFoundView
       ELSE ErrorDisplay(err.message)
  ELSE ErrorDisplay(MessageOf(err))

\* the parameters of the four detail calls
DetailCommonParams == "contentId" :> Str(SubjectId)
DetailIntroParams(detail) ==
  ("contentId" :> Str(SubjectId)) @@ ("contentTypeId" :> detail.contenttypeid)
DetailImageParams ==
  ("contentId" :> Str(SubjectId)) @@ ("imageYN" :> Str("Y")) @@ ("subImageYN" :> Str("Y"))
DetailPetTourParams == "contentId" :> Str(SubjectId)

\* upstream behaviours for getDetailCommon: a 404, a 503 after the retries,
\* an envelope without items, one with no item, and the subject
DetailCommonUpstreams ==
  {FetchFailed(ClientStatusError(404)), FetchFailed(ServerStatusError(503)),
   FetchedData(Envelope("items", Undefined, Undefined, Undefined, Undefined)),
   FetchedData(Envelope("none", Arr(<<>>), Undefined, Undefined, Undefined))}
  \cup
  {FetchedData(Envelope("none", subject, Undefined, Undefined, Undefined)) :
     subject \in Subjects}

\* upstream behaviours for the intro, image and pet-info calls
SectionUpstreams ==
  {FetchFailed(ClientStatusError(404)), FetchFailed(ServerStatusError(503)),
   FetchedData(Envelope("items", Undefined, Undefined, Undefined, Undefined)),
   FetchedData(Envelope("none", Arr(<<>>), Undefined, Undefined, Undefined)),
   FetchedData(Envelope("none", Obj(SubjectId), Undefined, Undefined, Undefined))}

\* upstream behaviours for a list query of the recommendation block
PageListUpstreams ==
  ListFailures \cup
  {Listed(ids) : ids \in {<<>>, SubSeq(Listing, 3, 3), SubSeq(Listing, 1, 4), Listing}}

\* what auth() settles with: a signed-in user, nobody, or a rejection
AuthOutcomes ==
  {Return([userId |-> Str("user_1")]), Return([userId |-> Null]),
   Throw(JsError("Error", "auth() failed"))}

\* what getBookmarkStatus settles with
BookmarkStatusOutcomes ==
  {Return(TRUE), Return(FALSE), Throw(JsError("Error", "Failed to check bookmark: timeout"))}

\* The component is called: it awaits getDetailCommon({ contentId }).
PlaceDetailContent(version) ==
  /\ ppc = "idle"
  /\ pageVersion' = version
  /\ ppc' = "getDetailCommon"
  /\ UNCHANGED <<detailCommon, isBookmarked, introData, images, petInfo, view>>
  /\ UNCHANGED <<recpc, detailData, recommendations, sameAreaAndType, sameType, recQueries>>
  /\ UNCHANGED notPageVars

\* getDetailCommon settles: on a throw the catch of the first try block ends
\* the component, otherwise auth() is awaited.
DetailCommonSettles ==
  /\ ppc = "getDetailCommon"
  /\ \E upstream \in DetailCommonUpstreams :
       LET outcome == ClientOutcome("getDetailCommon", DetailCommonParams, upstream) IN
       /\ detailCommon' = outcome
       /\ IF outcome.kind = "throw"
          THEN /\ view' = DetailCatch(outcome.error)
               /\ ppc' = "left"
               /\ detailData' = detailData
          ELSE /\ detailData' = outcome.value
               /\ ppc' = "auth"
               /\ view' = view
  /\ UNCHANGED <<isBookmarked, introData, images, petInfo>>
  /\ UNCHANGED <<recpc, pageVersion, recommendations, sameAreaAndType, sameType, recQueries>>
  /\ UNCHANGED notPageVars

\* auth() settles, in the first try block still: a rejection goes to its
\* catch, a user id to getBookmarkStatus, no user id to getDetailIntro.
AuthSettles ==
  /\ ppc = "auth"
  /\ \E outcome \in AuthOutcomes :
       IF outcome.kind = "throw"
       THEN /\ view' = DetailCatch(outcome.error)
            /\ ppc' = "left"
       ELSE /\ view' = view
            /\ ppc' = IF Truthy(outcome.value.userId)
                      THEN "getBookmarkStatus" ELSE "getDetailIntro"
  /\ UNCHANGED <<detailCommon, isBookmarked, introData, images, petInfo>>
  /\ UNCHANGED recVars
  /\ UNCHANGED notPageVars

\* getBookmarkStatus settles; its own catch logs only.
BookmarkStatusSettles ==
  /\ ppc = "getBookmarkStatus"
  /\ \E outcome \in BookmarkStatusOutcomes :
       isBookmarked' = IF outcome.kind = "return" THEN outcome.value ELSE isBookmarked
  /\ ppc' = "getDetailIntro"
  /\ UNCHANGED <<detailCommon, introData, images, petInfo, view>>
  /\ UNCHANGED recVars
  /\ UNCHANGED notPageVars

\* getDetailIntro settles; its catch logs only.
DetailIntroSettles ==
  /\ ppc = "getDetailIntro"
  /\ \E upstream \in SectionUpstreams :
       LET outcome == ClientOutcome("getDetailIntro", DetailIntroParams(detailData), upstream)
       IN introData' = IF outcome.kind = "return" THEN outcome.value ELSE introData
  /\ ppc' = "getDetailImage"
  /\ UNCHANGED <<detailCommon, isBookmarked, images, petInfo, view>>
  /\ UNCHANGED recVars
  /\ UNCHANGED notPageVars

\* getDetailImage settles; its catch logs only.
DetailImageSettles ==
  /\ ppc = "getDetailImage"
  /\ \E upstream \in SectionUpstreams :
       LET outcome == ClientOutcome("getDetailImage", DetailImageParams, upstream)
       IN images' = IF outcome.kind = "return" THEN outcome.value ELSE images
  /\ ppc' = "getDetailPetTour"
  /\ UNCHANGED <<detailCommon, isBookmarked, introData, petInfo, view>>
  /\ UNCHANGED recVars
  /\ UNCHANGED notPageVars

\* getDetailPetTour settles; its catch logs only, and the recommendation
\* block is entered, which awaits its first list query.
DetailPetTourSettles ==
  /\ ppc = "getDetailPetTour"
  /\ \E upstream \in SectionUpstreams :
       LET outcome == ClientOutcome("getDetailPetTour", DetailPetTourParams, upstream)
       IN petInfo' = IF outcome.kind = "return" THEN outcome.value ELSE petInfo
  /\ EnterRecommendations(detailData, pageVersion)
  /\ ppc' = "recommendations"
  /\ UNCHANGED <<detailCommon, isBookmarked, introData, images, view>>
  /\ UNCHANGED notPageVars

\* a list query of the recommendation block has settled: while another one
\* is awaited the component waits, otherwise it returns the detail view
AfterRecommendations ==
  /\ IF recpc' = "done"
     THEN /\ view' = DetailView(introData, images, petInfo, recommendations')
          /\ ppc' = "left"
     ELSE IF recpc' = "failed"
     THEN /\ view' = UncaughtView
          /\ ppc' = "left"
     ELSE /\ view' = view
          /\ ppc' = ppc
  /\ UNCHANGED <<detailCommon, isBookmarked, introData, images, petInfo>>
  /\ UNCHANGED notPageVars

PageSameAreaAndTypeSettles ==
  /\ ppc = "recommendations"
  /\ recpc = "tier1"
  /\ \E upstream \in PageListUpstreams :
       SameAreaAndTypeSettled(
         ClientOutcome("getAreaBasedList", SameAreaAndTypeParams(detailData), upstream))
  /\ AfterRecommendations

PageSameTypeSettles ==
  /\ ppc = "recommendations"
  /\ recpc = "tier2"
  /\ \E upstream \in PageListUpstreams :
       SameTypeSettled(
         ClientOutcome("getAreaBasedList", SameTypeParams(detailData), upstream))
  /\ AfterRecommendations

NextPage ==
  \/ \E version \in PageVersions : PlaceDetailContent(version)
  \/ DetailCommonSettles
  \/ AuthSettles
  \/ BookmarkStatusSettles
  \/ DetailIntroSettles
  \/ DetailImageSettles
  \/ DetailPetTourSettles
  \/ PageSameAreaAndTypeSettles
  \/ PageSameTypeSettles

SpecPage == Init /\ [][NextPage]_vars

(***************************************************************************)
(* parseApiResponse and normalizeToArray on their own: a body is parsed,   *)
(* what was parsed is normalized, and the result is normalized once more.  *)
(***************************************************************************)
\* parseApiResponse(data) is called with a body
ParseResponse ==
  /\ envelope = NoData
  /\ \E d \in ListEnvelopes :
       /\ envelope' = d
       /\ parsed' = parseApiResponse(d)
  /\ UNCHANGED normalized
  /\ UNCHANGED notParseVars

\* normalizeToArray is called with what was parsed, or with its last result
Normalize ==
  /\ parsed.kind = "return"
  /\ Len(normalized) < 2
  /\ normalized' = Append(normalized,
                          normalizeToArray(IF normalized = <<>> THEN parsed.value
                                           ELSE normalized[Len(normalized)]))
  /\ UNCHANGED <<envelope, parsed>>
  /\ UNCHANGED notParseVars

NextParse ==
  \/ ParseResponse
  \/ Normalize

SpecParse == Init /\ [][NextParse]_vars

(***************************************************************************)
(* getBookmarkStatus and toggleBookmark.  A step of a call is one request  *)
(* to the store, executed there, together with what the helper does with   *)
(* its answer up to the next request or to its end.  users has             *)
(* UNIQUE(clerk_id), bookmarks has UNIQUE(user_id, content_id).            *)
(***************************************************************************)
Callers == 1..MaxCallers
BookmarkOps == {"getBookmarkStatus", "toggleBookmark"}

\* what the store answers a request with: it carries it out, or it fails
StoreAnswers == {"ok", "error"}

BookmarkRow(id) == [t |-> "object", id |-> id]

\* .limit(1).maybeSingle(): the row when there is one, null otherwise
MaybeSingle(rows) == IF rows = {} THEN Null ELSE CHOOSE r \in rows : TRUE

\* return !!data
StatusOf_Negated(row) == ~Truthy(row)

StatusOf(row) == Truthy(row)

\* the two results of toggleBookmark
Removed == [isBookmarked |-> FALSE, row |-> Null]
Added(row) == [isBookmarked |-> TRUE, row |-> row]

UnderWay(c) == calls[c].at \notin {"idle", "done"}

\* the call of caller c ends with outcome, the bookmark rows being rows then
Ended(c, outcome, rows) ==
  [calls EXCEPT ![c].at = "done", ![c].result = outcome, ![c].left = rows]

\* Caller c calls a helper: getUserIdByClerkId selects the user's row.
CallHelper(c, op) ==
  /\ ~UnderWay(c)
  /\ callsStarted < MaxCalls
  /\ calls' = [calls EXCEPT ![c] = [op |-> op, at |-> "selectUser", existing |-> Null,
                                    before |-> bookmarkRows, result |-> NoResult,
                                    left |-> {}]]
  /\ callsStarted' = callsStarted + 1
  /\ overlapped' = (overlapped \/ \E d \in Callers \ {c} : UnderWay(d))
  /\ UNCHANGED <<userRow, bookmarkRows, rowsInserted>>
  /\ UNCHANGED notBookmarkVars

\* The select on users is answered: an error is thrown, a row found is the
\* user, and when there is none the user is inserted.
UserSelected(c, answer) ==
  /\ calls[c].at = "selectUser"
  /\ calls' = IF answer = "error"
              THEN Ended(c, Throw(JsError("Error", "Failed to fetch user: timeout")),
                         bookmarkRows)
              ELSE [calls EXCEPT ![c].at = IF userRow THEN "selectBookmark"
                                           ELSE "insertUser"]
  /\ UNCHANGED <<userRow, bookmarkRows, rowsInserted, callsStarted, overlapped>>
  /\ UNCHANGED notBookmarkVars

\* The insert into users is answered: it fails when the store fails or the
\* row is there by now, otherwise the row is there and the bookmark is
\* selected.
UserInserted(c, answer) ==
  /\ calls[c].at = "insertUser"
  /\ IF answer = "error" \/ userRow
     THEN /\ calls' = Ended(c, Throw(JsError("Error", "Failed to create user: rejected")),
                            bookmarkRows)
          /\ userRow' = userRow
     ELSE /\ calls' = [calls EXCEPT ![c].at = "selectBookmark"]
          /\ userRow' = TRUE
  /\ UNCHANGED <<bookmarkRows, rowsInserted, callsStarted, overlapped>>
  /\ UNCHANGED notBookmarkVars

\* The select on bookmarks is answered: getBookmarkStatus returns whether
\* there is a row; toggleBookmark goes on to delete the row it found, or to
\* insert one.
BookmarkSelected(c, answer) ==
  /\ calls[c].at = "selectBookmark"
  /\ LET row == MaybeSingle(bookmarkRows) IN
     calls' =
       IF answer = "error"
       THEN Ended(c, Throw(JsError("Error",
                                   IF calls[c].op = "getBookmarkStatus"
                                   THEN "Failed to check bookmark: timeout"
                                   ELSE "Failed to fetch bookmark: timeout")),
                  bookmarkRows)
       ELSE IF calls[c].op = "getBookmarkStatus"
       THEN Ended(c, Return(StatusOf(row)), bookmarkRows)
       ELSE [calls EXCEPT ![c].existing = row,
                          ![c].at = IF Truthy(row) THEN "delete" ELSE "insert"]
  /\ UNCHANGED <<userRow, bookmarkRows, rowsInserted, callsStarted, overlapped>>
  /\ UNCHANGED notBookmarkVars

\* The delete of the row found, by its id, is answered.
BookmarkDeleted(c, answer) ==
  /\ calls[c].at = "delete"
  /\ IF answer = "error"
     THEN /\ calls' = Ended(c, Throw(JsError("Error", "Failed to remove bookmark: timeout")),
                            bookmarkRows)
          /\ bookmarkRows' = bookmarkRows
     ELSE /\ bookmarkRows' = bookmarkRows \ {calls[c].existing}
          /\ calls' = Ended(c, Return(Removed), bookmarkRows')
  /\ UNCHANGED <<userRow, rowsInserted, callsStarted, overlapped>>
  /\ UNCHANGED notBookmarkVars

\* The insert of a row is answered: it fails when the store fails or a row
\* of the user and the content id is there by now.
BookmarkInserted(c, answer) ==
  /\ calls[c].at = "insert"
  /\ IF answer = "error" \/ bookmarkRows # {}
     THEN /\ calls' = Ended(c, Throw(JsError("Error", "Failed to add bookmark: rejected")),
                            bookmarkRows)
          /\ UNCHANGED <<bookmarkRows, rowsInserted>>
     ELSE LET row == BookmarkRow(rowsInserted + 1) IN
          /\ bookmarkRows' = {row}
          /\ rowsInserted' = rowsInserted + 1
          /\ calls' = Ended(c, Return(Added(row)), bookmarkRows')
  /\ UNCHANGED <<userRow, callsStarted, overlapped>>
  /\ UNCHANGED notBookmarkVars

NextBookmark ==
  \/ \E c \in Callers : \E op \in BookmarkOps : CallHelper(c, op)
  \/ \E c \in Callers : \E answer \in StoreAnswers : UserSelected(c, answer)
  \/ \E c \in Callers : \E answer \in StoreAnswers : UserInserted(c, answer)
  \/ \E c \in Callers : \E answer \in StoreAnswers : BookmarkSelected(c, answer)
  \/ \E c \in Callers : \E answer \in StoreAnswers : BookmarkDeleted(c, answer)
  \/ \E c \in Callers : \E answer \in StoreAnswers : BookmarkInserted(c, answer)

SpecBookmark == Init /\ [][NextBookmark]_vars

(***************************************************************************)
(* Properties of one endpoint call.                                        *)
(***************************************************************************)
Backoff == <<1000, 2000, 4000>>

LastWasResponse == lastAnswer.kind = "response"
LastWas4xx == LastWasResponse /\ lastAnswer.status >= 400 /\ lastAnswer.status < 500

Threw == pc = "done" /\ result.kind = "throw"
Returned == pc = "done" /\ result.kind = "return"

\* C1 (as stated): whenever an attempt of a call is answered with a 4xx
\* status, the call made exactly one network attempt and never slept.
C1_ExactlyOneAttempt ==
  LastWas4xx => (attempts = 1 /\ sleeps = <<>>)

\* C1 (amended): an attempt answered with a 4xx status is the last one of the
\* call: the call is over, no sleep follows it, the attempts are the retried
\* failures before it plus one, and when the 4xx answers the first attempt
\* the call made exactly one attempt and never slept.
C1_NoRetryAfter4xx ==
  LastWas4xx =>
    /\ pc = "done"
    /\ attempts = n5xx + nExc + 1
    /\ Len(sleeps) = n5xx + nExc
    /\ (n5xx + nExc = 0 => attempts = 1 /\ sleeps = <<>>)

C1_Witness ==
  /\ LastWas4xx
  /\ pc = "done"
  /\ attempts = 1
  /\ sleeps = <<>>

\* C2: while every attempt so far was answered with a status >= 500, at most
\* maxRetries+1 = 4 attempts are made, the sleeps are 1000, 2000, 4000 ms in
\* that order, they sum to at most 7000 ms, and the last attempt ends the call
\* with no sleep after it.
C2_ServerErrorBackoff ==
  (attempts > 0 /\ n5xx = attempts) =>
    /\ attempts <= maxRetries + 1
    /\ attempts <= 4
    /\ Len(sleeps) = Min(attempts, 3)
    /\ sleeps = SubSeq(Backoff, 1, Len(sleeps))
    /\ SumSeq(sleeps) <= 7000
    /\ (attempts = 4 => pc = "done" /\ result.kind = "throw")

C2_Witness ==
  /\ n5xx = 4
  /\ attempts = 4
  /\ pc = "done"
  /\ sleeps = <<1000, 2000, 4000>>

\* C3: while every attempt so far ended in a transport exception the backoff
\* is the one of the 5xx case, and when all maxRetries+1 attempts ended in one
\* the call fails with a TourApiError without status code whose originalError
\* is the exception of the last attempt.
C3_TransportExceptions ==
  (attempts > 0 /\ nExc = attempts) =>
    /\ attempts <= maxRetries + 1
    /\ Len(sleeps) = Min(attempts, maxRetries)
    /\ sleeps = SubSeq(Backoff, 1, Len(sleeps))
    /\ (attempts = maxRetries + 1 =>
          /\ Threw
          /\ IsTourApiError(result.error)
          /\ result.error.statusCode = Undefined
          /\ result.error.originalError = lastAnswer.error)

C3_Witness ==
  /\ nExc = 4
  /\ Threw
  /\ result.error.originalError = JsError("Error", "ECONNRESET")

OptionalEndpoints == {"getDetailImage", "getDetailPetTour"}
MandatoryEndpoints == {"getDetailCommon", "getDetailIntro"}

\* the soft result of an optional endpoint: [] for images, null for pet info
SoftResult(ep) == IF ep = "getDetailImage" THEN Return(Arr(<<>>)) ELSE Return(Null)

\* C4: when the upstream answers getDetailImage or getDetailPetTour with
\* status 404, the call returns the empty array, respectively null, and does
\* not throw.
C4_Optional404IsSoft ==
  (pc = "done" /\ endpoint \in OptionalEndpoints /\ lastAnswer = Response(404))
    => result = SoftResult(endpoint)

\* C5: when the upstream answers OK with an envelope whose body.items.item is
\* absent (undefined, null, or an enclosing object missing), getDetailImage
\* returns [] and getDetailPetTour returns null; neither throws.
C5_AbsentItemIsSoft ==
  (pc = "done" /\ endpoint \in OptionalEndpoints /\ ItemAbsent(data))
    => result = SoftResult(endpoint)

C5_Witness ==
  /\ pc = "done"
  /\ endpoint = "getDetailImage"
  /\ data.missing = "items"
  /\ result = Return(Arr(<<>>))

\* C6: when the upstream answers OK and normalization yields zero items (the
\* item is the empty array), getDetailCommon and getDetailIntro throw a
\* TourApiError whose statusCode is 404 and return no value.
C6_ZeroItemsIsNotFound ==
  (pc = "done" /\ endpoint \in MandatoryEndpoints
     /\ data.missing = "none" /\ data.item = Arr(<<>>))
    => /\ result.kind = "throw"
       /\ IsTourApiError(result.error)
       /\ result.error.statusCode = Num(404)

C6_Witness ==
  /\ pc = "done"
  /\ endpoint = "getDetailCommon"
  /\ data.missing = "none"
  /\ data.item = Arr(<<>>)
  /\ result.kind = "throw"

\* C7: when the envelope is valid and carries no item, a mandatory endpoint
\* throws a not-found error with status 404, an optional endpoint returns its
\* soft result, and on none of them does the normalizer's missing-data error
\* reach the caller.
C7_MissingDataReinterpreted ==
  (pc = "done" /\ ItemAbsent(data)
     /\ endpoint \in MandatoryEndpoints \cup OptionalEndpoints) =>
    /\ endpoint \in MandatoryEndpoints =>
         /\ result.kind = "throw"
         /\ result.error.statusCode = Num(404)
    /\ endpoint \in OptionalEndpoints => result = SoftResult(endpoint)
    /\ ~(result.kind = "throw" /\ IncludesItemsMissing(result.error.message))

\* C8: when the upstream answers OK with an envelope that carries no item,
\* getAreaBasedList and searchKeyword return a ListResult and do not throw.
C8_ListAlwaysReturns ==
  (pc = "done" /\ endpoint \in ListEndpoints /\ ItemAbsent(data))
    => /\ result.kind = "return"
       /\ "items" \in DOMAIN result.value
       /\ "totalCount" \in DOMAIN result.value

\* the value of a field of the envelope when it provides one, else the default
EnvelopeOr(field, default) == IF field = Undefined THEN default ELSE field

\* C9: every ListResult returned by getAreaBasedList or searchKeyword carries
\* totalCount, pageNo and numOfRows, each the envelope's value when the
\* envelope provides it, and otherwise the number of items, the request's
\* pageNo (default 1) and the request's numOfRows (default 10).
C9_ListResultFields ==
  (pc = "done" /\ endpoint \in ListEndpoints /\ result.kind = "return") =>
    /\ {"totalCount", "pageNo", "numOfRows"} \subseteq DOMAIN result.value
    /\ result.value.totalCount =
         EnvelopeOr(data.totalCount, Num(Len(result.value.items.v)))
    /\ result.value.pageNo =
         EnvelopeOr(data.pageNo,
                    IF params["pageNo"] = Undefined THEN Num(1) ELSE params["pageNo"])
    /\ result.value.numOfRows =
         EnvelopeOr(data.numOfRows,
                    IF params["numOfRows"] = Undefined THEN Num(10)
                    ELSE params["numOfRows"])

\* neither TOUR_API_KEY nor NEXT_PUBLIC_TOUR_API_KEY is set
CredentialMissing ==
  /\ env # NoEnv
  /\ env.TOUR_API_KEY = Undefined
  /\ env.NEXT_PUBLIC_TOUR_API_KEY = Undefined

\* C17: a call made with neither TOUR_API_KEY nor NEXT_PUBLIC_TOUR_API_KEY
\* set is over at once with a TourApiError that carries no status code, no
\* URL was built, no network attempt and no sleep was made; a call made on
\* the server with both set sends TOUR_API_KEY as serviceKey.
C17_MissingCredentialFailsFast ==
  /\ CredentialMissing =>
       /\ pc = "done"
       /\ result.kind = "throw"
       /\ IsTourApiError(result.error)
       /\ result.error.message = <<"Tour API key is missing">>
       /\ result.error.statusCode = Undefined
       /\ url = NoUrl
       /\ attempts = 0
       /\ sleeps = <<>>
  /\ (env # NoEnv /\ env.isServer
        /\ env.TOUR_API_KEY # Undefined /\ env.NEXT_PUBLIC_TOUR_API_KEY # Undefined) =>
       /\ url # NoUrl
       /\ url.query["serviceKey"] = env.TOUR_API_KEY.v

C17_Witness ==
  /\ CredentialMissing
  /\ endpoint = "getDetailPetTour"
  /\ pc = "done"
  /\ result.kind = "throw"
  /\ attempts = 0

PetTourNotFound ==
  /\ endpoint = "getDetailPetTour"
  /\ lastAnswer = Response(404)

BranchCount == Len(results)
FailedCount == Cardinality({i \in DOMAIN results : results[i] = Null})

BranchKey(b) == IF aggregate = "getRegionStats" THEN b.code ELSE b.id
StatKey(r) == IF aggregate = "getRegionStats" THEN r.code ELSE r.contentTypeId

SucceededKeys == {BranchKey(branches[i]) : i \in {j \in DOMAIN results : results[j] # Null}}

\* C10: when getRegionStats (over the N regions of the fetched code list) or
\* getTypeStats (over the 8 content types) is done and M of its N count
\* queries failed, it returned exactly N-M stats, one per successful branch,
\* if M < N, and it threw if M = N; it throws in no other case.
C10_PartialFailureAbsorbed ==
  spc = "done" =>
    /\ aggregate = "getTypeStats" => BranchCount = 8
    /\ FailedCount < BranchCount =>
         /\ statsResult.kind = "return"
         /\ Len(statsResult.value.v) = BranchCount - FailedCount
         /\ {StatKey(statsResult.value.v[k]) : k \in DOMAIN statsResult.value.v}
              = SucceededKeys
    /\ FailedCount = BranchCount => statsResult.kind = "throw"

C10_Witness ==
  /\ spc = "done"
  /\ aggregate = "getRegionStats"
  /\ BranchCount = 3
  /\ FailedCount = 1
  /\ statsResult.kind = "return"
  /\ Len(statsResult.value.v) = 2

\* the branches whose callback returned a stat, in the order of the fan-out
SucceededBranches == SelectSeq([i \in DOMAIN results |-> i], LAMBDA i : results[i] # Null)

\* C19: under every order in which the count queries of getRegionStats and
\* getTypeStats complete, the aggregator has no outcome while a branch is
\* pending; once it is done every branch has settled, a branch that failed
\* took no sibling's stat away, and the returned stats are those of the
\* successful branches in the order of the region list or the content types,
\* each with the count its own branch got.
C19_WaitForAllCollectSuccesses ==
  /\ spc = "fanout" => (statsResult = NoResult /\ ~AllSettled(results))
  /\ (spc = "done" /\ BranchCount > 0) =>
       /\ AllSettled(results)
       /\ \A i \in DOMAIN results :
            results[i] # Null => StatKey(results[i]) = BranchKey(branches[i])
       /\ SucceededBranches # <<>> =>
            /\ statsResult.kind = "return"
            /\ DOMAIN statsResult.value.v = DOMAIN SucceededBranches
            /\ \A k \in DOMAIN SucceededBranches :
                 /\ StatKey(statsResult.value.v[k]) = BranchKey(branches[SucceededBranches[k]])
                 /\ statsResult.value.v[k].count = results[SucceededBranches[k]].count

\* getTypeStats done with its first and third query failed and the others
\* successful
C19_Witness ==
  /\ spc = "done"
  /\ aggregate = "getTypeStats"
  /\ SucceededBranches = <<2, 4, 5, 6, 7, 8>>
  /\ statsResult.kind = "return"
  /\ Len(statsResult.value.v) = 6

(***************************************************************************)
(* Properties of the percentages of getTypeStats.                          *)
(***************************************************************************)
\* x / y rounded to the nearest integer, a tie going up (x >= 0, y > 0)
RoundDiv(x, y) == (2 * x + y) \div (2 * y)

\* the counts of the returned category stats, and their sum S
ReturnedCounts == [i \in DOMAIN typeStats.value.v |-> typeStats.value.v[i].count.v]
ReturnedTotal == SumSeq(ReturnedCounts)

\* C11: each category stat getTypeStats returns has the percentage
\* round(count / S * 1000) / 10, S being the sum of the counts of the
\* successfully queried categories, and 0 when S is 0.
C11_PercentageIsRounded ==
  typeStats.kind = "return" =>
    \A i \in DOMAIN typeStats.value.v :
      typeStats.value.v[i].percentageTenths =
        IF ReturnedTotal = 0 THEN 0
        ELSE RoundDiv(typeStats.value.v[i].count.v * 1000, ReturnedTotal)

\* the example of C11: counts 10, 0, 30 give 25.0, 0.0 and 75.0
C11_Example ==
  (typeStats.kind = "return" /\ ReturnedCounts = <<10, 0, 30>>) =>
    [i \in 1..3 |-> typeStats.value.v[i].percentageTenths] = <<250, 0, 750>>

(***************************************************************************)
(* Properties of getStatsSummary.                                          *)
(***************************************************************************)
SummaryReturned == summary.kind = "return"

CountsOf(stats) == [i \in DOMAIN stats |-> stats[i].count.v]

\* C12: the totalCount of a returned StatsSummary is the sum of the counts of
\* the category stats getTypeStats returned in that call, whatever the
\* counts of the region stats are.
C12_TotalIsSumOfTypeCounts ==
  SummaryReturned =>
    /\ sumTypeStats.kind = "return"
    /\ summary.value.totalCount = Num(SumSeq(CountsOf(sumTypeStats.value.v)))

C12_Witness ==
  /\ SummaryReturned
  /\ summary.value.totalCount = Num(2)
  /\ CountsOf(sumTypeStats.value.v) = <<1, 0, 1>>
  /\ CountsOf(sumRegionStats.value.v) = <<1, 1, 1, 1>>

\* the number of stats that come before stats[i] when the stats are sorted by
\* count descending, stats of equal count keeping their order
Rank(stats, i) ==
  Cardinality({j \in DOMAIN stats :
                 \/ stats[j].count.v > stats[i].count.v
                 \/ stats[j].count.v = stats[i].count.v /\ j < i})

IsTopThreeOf(top, stats) ==
  /\ Len(top) = Min(3, Len(stats))
  /\ \A k \in DOMAIN top :
       \E i \in DOMAIN stats : Rank(stats, i) = k - 1 /\ top[k] = stats[i]

\* the places of stats in the region code list, and in the content types
RegionPlaces(stats) ==
  [i \in DOMAIN stats |->
     CHOOSE n \in DOMAIN RegionCatalogue : RegionCatalogue[n].code = stats[i].code]
TypePlaces(stats) ==
  [i \in DOMAIN stats |->
     CHOOSE n \in DOMAIN getAllContentTypes :
       getAllContentTypes[n].id = stats[i].contentTypeId]

Increasing(places) == \A i, j \in DOMAIN places : i < j => places[i] < places[j]

\* C13: in a returned StatsSummary topRegions (topTypes) is the first
\* min(3, n) of the n region stats (category stats) sorted by count
\* descending, stats of equal count keeping the order of the stats list, and
\* the stats arrays are still in region-code (content-type) order.
C13_TopThreeStable ==
  SummaryReturned =>
    /\ IsTopThreeOf(summary.value.topRegions.v, sumRegionStats.value.v)
    /\ IsTopThreeOf(summary.value.topTypes.v, sumTypeStats.value.v)
    /\ Increasing(RegionPlaces(sumRegionStats.value.v))
    /\ Increasing(TypePlaces(sumTypeStats.value.v))

C13_Witness ==
  /\ SummaryReturned
  /\ CountsOf(sumRegionStats.value.v) = <<0, 1, 1, 1>>
  /\ RegionPlaces(summary.value.topRegions.v) = <<2, 3, 4>>
  /\ CountsOf(sumTypeStats.value.v) = <<1, 0, 1, 0>>
  /\ TypePlaces(summary.value.topTypes.v) = <<1, 3, 2>>

(***************************************************************************)
(* Properties of the recommendation block.                                 *)
(***************************************************************************)
RecsDone == recpc = "done"

IdsOf(items) == [i \in DOMAIN items |-> items[i].contentid]

NoRepeat(ids) == \A i, j \in DOMAIN ids : i # j => ids[i] # ids[j]

\* the ids a query listed, <<>> when it failed or was not made
ListedBy(outcome) ==
  IF outcome.kind = "return" THEN IdsOf(outcome.value.items.v) ELSE <<>>

\* C14 (as stated): whatever the two queries settled with, the
\* recommendations are at most 6, none is the subject, and no two have the
\* same contentid.
C14_AtMostSixDistinct ==
  RecsDone =>
    /\ Len(recommendations) <= 6
    /\ \A i \in DOMAIN recommendations : recommendations[i].contentid # detailData.contentid
    /\ NoRepeat(IdsOf(recommendations))

\* C14 (amended): the recommendations are at most 6 and none is the subject
\* whatever the two queries settled with, and no two have the same contentid
\* when neither query listed a contentid twice.
C14_DistinctWhenListsAre ==
  RecsDone =>
    /\ Len(recommendations) <= 6
    /\ \A i \in DOMAIN recommendations : recommendations[i].contentid # detailData.contentid
    /\ (NoRepeat(ListedBy(sameAreaAndType)) /\ NoRepeat(ListedBy(sameType)))
         => NoRepeat(IdsOf(recommendations))

C14_Witness ==
  /\ RecsDone
  /\ pageVersion = "cascade"
  /\ ListedBy(sameAreaAndType) = <<"2", "3", "4", "5">>
  /\ ListedBy(sameType) = <<"7", "6", "5", "4", "3", "2", "1">>
  /\ IdsOf(recommendations) = <<"2", "4", "5", "7", "6", "1">>

\* the first n entries of ids whose position is in ok, in order
FirstAt(ids, ok, n) ==
  LET before(p) == Cardinality({q \in ok : q < p})
      taken == {p \in ok : before(p) < n}
  IN [m \in 1..Cardinality(taken) |-> ids[CHOOSE p \in taken : before(p) = m - 1]]

\* the ids the region-and-type query listed, the subject's left out
RegionMatches ==
  LET ids == ListedBy(sameAreaAndType) IN
  FirstAt(ids, {p \in DOMAIN ids : ids[p] # detailData.contentid}, Len(ids))

\* the ids the type-only query listed that are neither the subject's nor
\* among the region matches, the first n of them
TypeMatches(n) ==
  LET ids == ListedBy(sameType) IN
  FirstAt(ids,
          {p \in DOMAIN ids :
             /\ ids[p] # detailData.contentid
             /\ \A k \in DOMAIN RegionMatches : RegionMatches[k] # ids[p]},
          n)

\* both queries of the cascade were made and returned
BothListed ==
  /\ RecsDone
  /\ pageVersion = "cascade"
  /\ sameAreaAndType.kind = "return"
  /\ sameType.kind = "return"

\* C15: when the subject's region is known and the region-and-type query
\* listed k < 6 items other than the subject, the recommendations are those
\* k in the provider's order followed by the first 6-k items the type-only
\* query listed that are neither the subject nor one of the k.
C15_RegionFirstThenType ==
  (RecsDone /\ pageVersion = "cascade" /\ Truthy(detailData.areacode)
     /\ sameAreaAndType.kind = "return" /\ Len(RegionMatches) < 6) =>
    /\ sameType # NoResult
    /\ sameType.kind = "return" =>
         IdsOf(recommendations) = RegionMatches \o TypeMatches(6 - Len(RegionMatches))

\* the example of C15: 4 region matches and 10 type matches
C15_Witness ==
  /\ BothListed
  /\ ListedBy(sameAreaAndType) = <<"4", "5", "6", "7">>
  /\ ListedBy(sameType) = <<"1", "2", "3", "4", "5", "6", "7", "8", "9", "10">>
  /\ IdsOf(recommendations) = <<"4", "5", "6", "7", "1", "2">>

\* C16: the block never leaves with an exception; in the cascade a failed
\* region-and-type query counts as one that listed nothing and the type-only
\* query is still made, a failed type-only query leaves what the
\* region-and-type query selected, and when both fail nothing is recommended.
C16_FailuresAbsorbed ==
  /\ recpc # "failed"
  /\ (RecsDone /\ pageVersion = "cascade") =>
       /\ sameAreaAndType.kind = "throw" =>
            /\ Len(recQueries) = 2
            /\ sameType # NoResult
            /\ IdsOf(recommendations) = TypeMatches(6)
       /\ sameType.kind = "throw" =>
            IdsOf(recommendations) = FirstAt(RegionMatches, DOMAIN RegionMatches, 6)
       /\ (sameAreaAndType.kind = "throw" /\ sameType.kind = "throw") =>
            recommendations = <<>>

C16_Witness ==
  /\ RecsDone
  /\ pageVersion = "cascade"
  /\ sameAreaAndType.kind = "throw"
  /\ ListedBy(sameType) = <<"2", "3", "4">>
  /\ IdsOf(recommendations) = <<"2", "4">>

(***************************************************************************)
(* Properties of the detail page.                                          *)
(***************************************************************************)
PageLeft == ppc = "left"
DetailCommonSucceeded == detailCommon.kind = "return"
DetailCommonFailed == detailCommon.kind = "throw"

\* C20: when PlaceDetailContent is over, it rendered the detail view with
\* DetailInfo if getDetailCommon succeeded, whatever the intro, image,
\* pet-info and recommendation calls came to; and it came to not-found or to
\* an error display only if getDetailCommon failed: not-found when that
\* failure carries status 404, the error display otherwise.
C20_OnlyDetailCommonFails ==
  PageLeft =>
    /\ DetailCommonSucceeded =>
         (view.kind = "detail" /\ "DetailInfo" \in view.sections)
    /\ view.kind # "detail" => DetailCommonFailed
    /\ DetailCommonFailed =>
         view = IF detailCommon.error.statusCode = Num(404)
                THEN NotFoundView
                ELSE ErrorDisplay(detailCommon.error.message)

\* the part of C20 about the optional calls: after getDetailCommon succeeded
\* nothing is rendered while a call is awaited, and the component ends with
\* the detail view unless auth() was what failed
AuthFailures == {ErrorDisplay(MessageOf(o.error)) : o \in {a \in AuthOutcomes : a.kind = "throw"}}

OptionalCallsAbsorbed ==
  /\ ppc \in {"getBookmarkStatus", "getDetailIntro", "getDetailImage",
              "getDetailPetTour", "recommendations"} =>
       (DetailCommonSucceeded /\ view = NoResult)
  /\ (PageLeft /\ DetailCommonSucceeded /\ view \notin AuthFailures) =>
       (view.kind = "detail" /\ "DetailInfo" \in view.sections)

\* the detail view rendered after the intro, image and pet-info calls and
\* both list queries failed
OptionalCallsAllFailed ==
  /\ PageLeft
  /\ view.kind = "detail"
  /\ view.sections = {"DetailInfo", "BookmarkButton", "ShareButton", "DetailMap"}
  /\ sameAreaAndType.kind = "throw"
  /\ sameType.kind = "throw"

(***************************************************************************)
(* Properties of parseApiResponse and normalizeToArray.                    *)
(***************************************************************************)
MissingDataError == TourApiError(<<ItemsMissingMessage>>, Undefined, Undefined)

\* C21: parseApiResponse throws the missing-data error exactly when
\* body.items.item of the body is undefined or null (or an object on the way
\* to it is missing), and otherwise returns the item as it is;
\* normalizeToArray gives [x] for an x that is no array and the array itself
\* for an array, and normalizing its result once more changes nothing.
C21_ParseAndNormalize ==
  /\ envelope # NoData =>
       /\ parsed = Throw(MissingDataError) <=> ItemAbsent(envelope)
       /\ (envelope.missing = "none" /\ ~ItemAbsent(envelope)) =>
            parsed = Return(envelope.item)
  /\ Len(normalized) >= 1 =>
       IF parsed.value.t = "array"
       THEN normalized[1] = parsed.value
       ELSE /\ normalized[1].t = "array"
            /\ Len(normalized[1].v) = 1
            /\ normalized[1].v[1] = parsed.value
  /\ Len(normalized) = 2 => normalized[2] = normalized[1]

\* a bare object normalized twice
C21_Witness ==
  /\ parsed = Return(Obj("125266"))
  /\ Len(normalized) = 2
  /\ normalized[2] = Arr(<<Obj("125266")>>)

\* an array normalized twice
C21_ArrayWitness ==
  /\ parsed = Return(Arr(<<Obj("125266")>>))
  /\ Len(normalized) = 2

(***************************************************************************)
(* Properties of the bookmark helpers.                                     *)
(***************************************************************************)
ReturnedFrom(c, op) ==
  calls[c].at = "done" /\ calls[c].op = op /\ calls[c].result.kind = "return"

\* C22: as long as no two calls were under way at once, a toggleBookmark
\* that returned flipped the stored state: it returned isBookmarked = true
\* and left one row when there was none, isBookmarked = false and no row
\* when there was one; and a getBookmarkStatus that returned said whether a
\* row is there, so that after a toggleBookmark it equals the isBookmarked
\* returned.
C22_ToggleFlips ==
  ~overlapped =>
    \A c \in Callers :
      /\ ReturnedFrom(c, "toggleBookmark") =>
           /\ calls[c].result.value.isBookmarked = (calls[c].before = {})
           /\ Cardinality(calls[c].left) = IF calls[c].before = {} THEN 1 ELSE 0
      /\ ReturnedFrom(c, "getBookmarkStatus") =>
           /\ calls[c].result.value = (calls[c].before # {})
           /\ calls[c].left = calls[c].before

\* four calls one after the other from no bookmark: a toggle returned true,
\* a status true, and the second toggle false with no row left
C22_Witness ==
  /\ ~overlapped
  /\ callsStarted = 4
  /\ ReturnedFrom(1, "toggleBookmark")
  /\ calls[1].result.value.isBookmarked = FALSE
  /\ calls[1].before # {}
  /\ bookmarkRows = {}
  /\ ReturnedFrom(2, "getBookmarkStatus")
  /\ calls[2].result.value = TRUE

\* C30: whatever the interleaving of toggleBookmark calls, a call that
\* returned isBookmarked = false left no bookmark row at its return, and one
\* that returned isBookmarked = true left exactly one.
C30_ReturnMatchesStore ==
  \A c \in Callers :
    ReturnedFrom(c, "toggleBookmark") =>
      Cardinality(calls[c].left) = IF calls[c].result.value.isBookmarked THEN 1 ELSE 0

(***************************************************************************)
(* Properties of the requests of one aggregator call.                      *)
(***************************************************************************)
\* C23: in one call of an aggregator getAreaCode is called once by
\* getRegionStats and never by getTypeStats, and once the fan-out is made
\* getAreaBasedList has been called exactly once per region, respectively
\* once for each of the 8 content types, with numOfRows = 1 and pageNo = 1
\* and the branch's code or id; no call is added when a branch fails.
C23_OneQueryPerBranch ==
  /\ (aggregate = "getRegionStats" /\ spc # "idle") => areaCodeCalls = 1
  /\ aggregate = "getTypeStats" => (areaCodeCalls = 0 /\ Len(listCalls) = 8)
  /\ (spc \in {"fanout", "done"} /\ BranchCount > 0) =>
       /\ Len(listCalls) = Len(branches)
       /\ \A i \in DOMAIN listCalls :
            /\ Len(listCalls[i]) = 1
            /\ listCalls[i][1]["numOfRows"] = Num(1)
            /\ listCalls[i][1]["pageNo"] = Num(1)
            /\ IF aggregate = "getRegionStats"
               THEN listCalls[i][1]["areaCode"] = Str(branches[i].code)
               ELSE listCalls[i][1]["contentTypeId"] = Str(branches[i].id)

\* getRegionStats done over three regions, one of whose queries failed
C23_Witness ==
  /\ spc = "done"
  /\ aggregate = "getRegionStats"
  /\ areaCodeCalls = 1
  /\ Len(listCalls) = 3
  /\ results[2] = Null
  /\ results[1] # Null
  /\ Len(listCalls[2]) = 1

(***************************************************************************)
(* Properties of the queries of the recommendation cascade.                *)
(***************************************************************************)
IsRegionQuery(q) == "areaCode" \in DOMAIN q
RegionQueries == {k \in DOMAIN recQueries : IsRegionQuery(recQueries[k])}
TypeQueries == {k \in DOMAIN recQueries : ~IsRegionQuery(recQueries[k])}

\* the list queries answered so far, and those awaited
QueriesSettled ==
  (IF sameAreaAndType = NoResult THEN 0 ELSE 1) + (IF sameType = NoResult THEN 0 ELSE 1)
QueriesInFlight == Len(recQueries) - QueriesSettled

\* C24: in the cascade the region-and-type query is made exactly when the
\* subject's areacode is truthy, and it is the first query; the type-only
\* query is made exactly when, the first one settled or skipped, fewer than
\* 6 recommendations are selected, and never while the first is awaited; so
\* there are at most 2 queries and at most one is awaited at a time.
C24_CascadeQueries ==
  (pageVersion = "cascade" /\ recpc # "idle") =>
    /\ Len(recQueries) <= 2
    /\ QueriesInFlight = IF recpc \in {"tier1", "tier2"} THEN 1 ELSE 0
    /\ RegionQueries = IF Truthy(detailData.areacode) THEN {1} ELSE {}
    /\ Cardinality(TypeQueries) <= 1
    /\ recpc = "tier1" => TypeQueries = {}
    /\ recpc # "tier1" =>
         (TypeQueries # {} <=> Len(RegionMatches) < MaxRecommendations)
    /\ TypeQueries # {} =>
         (Truthy(detailData.areacode) => sameAreaAndType # NoResult)

\* a cascade over after the region-and-type query filled all six places
C24_Witness ==
  /\ RecsDone
  /\ pageVersion = "cascade"
  /\ Len(recQueries) = 1
  /\ RegionQueries = {1}
  /\ Len(recommendations) = 6
  /\ sameType = NoResult

(***************************************************************************)
(* Properties of the retry loop over mixed failures.                       *)
(***************************************************************************)
LastWasBelow400 == LastWasResponse /\ lastAnswer.status < 400

\* the failures retried so far
Retried == n5xx + nExc

\* C25: an attempt answered with a status below 400 is the last one:
\* fetchWithRetry returns that response as it is, whatever failed before,
\* after exactly one attempt more than the failures that were retried, with
\* one sleep per such failure and none after; the client goes on with the
\* response (to response.json(), or to its own check of response.ok).
C25_FirstSuccessReturned ==
  LastWasBelow400 =>
    /\ fetchWithRetry(attempt, lastError, lastAnswer).kind = "return"
    /\ fetchWithRetry(attempt, lastError, lastAnswer).response = lastAnswer
    /\ pc \in {"json", "done"}
    /\ attempt = Retried
    /\ Retried <= maxRetries
    /\ attempts = Retried + 1
    /\ sleeps = SubSeq(Backoff, 1, Retried)

\* a 503 and a transport exception, then a 200: three attempts, two sleeps
C25_Witness ==
  /\ lastAnswer = Response(200)
  /\ n5xx = 1
  /\ nExc = 1
  /\ attempts = 3
  /\ sleeps = <<1000, 2000>>
  /\ pc = "json"

\* ---------------------------------------------------------------------------
\* C26
ListReturned == Returned /\ endpoint \in ListEndpoints
ItemsReturned == Len(result.value.items.v)
\* the envelope's totalCount, when it gives one, is at least the number of
\* items the result carries
CountCoversItems ==
  data.totalCount # Undefined => data.totalCount.v >= ItemsReturned

C26_DefaultWitness ==
  /\ ListReturned
  /\ data.totalCount = Undefined
  /\ ItemsReturned = 1
  /\ result.value.totalCount = Num(1)

\* ---------------------------------------------------------------------------
\* C27
LastWas5xx == LastWasResponse /\ lastAnswer.status >= 500
LastWasException == lastAnswer.kind = "exception"
\* every attempt the call is allowed was made and failed
Exhausted == n5xx + nExc = maxRetries + 1
\* both kinds of failure occurred in the call
MixedFailures == n5xx > 0 /\ nExc > 0

\* C27: 5xx responses and transport exceptions draw on one attempt counter:
\* however the two kinds of failure are mixed, at most maxRetries+1 attempts
\* are made, the sleep after failed attempt a (counted from 0) is
\* 2^a * 1000 ms whichever kind of failure it was, and the error raised on
\* exhaustion describes the last attempt only: its 5xx status code when it
\* was a response, the wrapped exception and no status code when it was a
\* transport failure.
C27_SharedAttemptCounter ==
  /\ attempts <= maxRetries + 1
  /\ n5xx + nExc <= attempts
  /\ Len(sleeps) = Min(n5xx + nExc, maxRetries)
  /\ \A i \in DOMAIN sleeps : sleeps[i] = (2 ^ (i - 1)) * 1000
  /\ Exhausted =>
       /\ attempts = maxRetries + 1
       /\ Threw
       /\ LastWas5xx \/ LastWasException
       /\ LastWas5xx =>
            /\ result.error = ServerStatusError(lastAnswer.status)
            /\ result.error.statusCode = Num(lastAnswer.status)
       /\ LastWasException =>
            /\ result.error = RetriesExhaustedError(AsError(lastAnswer.error))
            /\ result.error.statusCode = Undefined
            /\ result.error.originalError = AsError(lastAnswer.error)

\* exceptions first, a 5xx last: the status of the last attempt is raised
C27_Witness ==
  /\ Exhausted
  /\ MixedFailures
  /\ LastWas5xx
  /\ nExc = maxRetries
  /\ sleeps = <<1000, 2000, 4000>>
  /\ Threw
  /\ result.error.statusCode = Num(lastAnswer.status)
\* 5xx answers first, an exception last: no status code is raised
C27_ExceptionLastWitness ==
  /\ Exhausted
  /\ MixedFailures
  /\ LastWasException
  /\ n5xx = maxRetries
  /\ sleeps = <<1000, 2000, 4000>>
  /\ Threw
  /\ result.error.statusCode = Undefined

\* ---------------------------------------------------------------------------
\* C28
RegionStatsFailed == sumRegionStats.kind = "throw"
TypeStatsFailed == sumTypeStats.kind = "throw"
SummaryThrew == summary.kind = "throw"

\* C28: getStatsSummary returns a summary only if getRegionStats and
\* getTypeStats both succeeded; as soon as either aggregate fails it fails,
\* with the error of a failed aggregate (of the one that failed when the
\* other succeeded), and a summary it returns is never partial: its
\* topRegions and topTypes are taken from the two returned aggregates.
C28_BothOrNothing ==
  /\ SummaryReturned =>
       /\ sumRegionStats.kind = "return"
       /\ sumTypeStats.kind = "return"
       /\ summary.value.topRegions = Arr(TopStats(sumRegionStats.value.v).top)
       /\ summary.value.topTypes = Arr(TopStats(sumTypeStats.value.v).top)
       /\ Len(summary.value.topRegions.v) > 0
       /\ Len(summary.value.topTypes.v) > 0
  /\ (RegionStatsFailed \/ TypeStatsFailed) =>
       /\ SummaryThrew
       /\ \/ RegionStatsFailed /\ summary.error = sumRegionStats.error
          \/ TypeStatsFailed /\ summary.error = sumTypeStats.error
  /\ (RegionStatsFailed /\ sumTypeStats.kind = "return") =>
       summary.error = sumRegionStats.error
  /\ (TypeStatsFailed /\ sumRegionStats.kind = "return") =>
       summary.error = sumTypeStats.error

\* getRegionStats returned, getTypeStats failed: its error is the outcome
C28_Witness ==
  /\ sumRegionStats.kind = "return"
  /\ TypeStatsFailed
  /\ SummaryThrew
  /\ summary.error = sumTypeStats.error
\* getTypeStats returned, getRegionStats failed
C28_RegionWitness ==
  /\ sumTypeStats.kind = "return"
  /\ RegionStatsFailed
  /\ SummaryThrew
  /\ summary.error = sumRegionStats.error

\* ---------------------------------------------------------------------------
\* C29
AllQueriesFailedError ==
  TourApiError(IF aggregate = "getRegionStats"
               THEN <<"Failed to get region stats: All area queries failed">>
               ELSE <<"Failed to get type stats: All content type queries failed">>,
               Undefined, Undefined)

\* C29: in getRegionStats and getTypeStats a branch whose query was answered
\* with an OK envelope without item is handled as a failed branch: its
\* callback returns null, so the region or category is left out of the
\* result instead of being reported with count 0, and when every branch was
\* answered so the aggregate throws the all-queries-failed error although no
\* request failed.
C29_ItemlessBranchFails ==
  /\ \A i \in itemless :
       /\ results[i] = Null
       /\ (spc = "done" /\ statsResult.kind = "return") =>
            \A k \in DOMAIN statsResult.value.v :
              StatKey(statsResult.value.v[k]) # BranchKey(branches[i])
  /\ (spc = "done" /\ BranchCount > 0 /\ itemless = DOMAIN results) =>
       statsResult = Throw(AllQueriesFailedError)

\* one region without item among regions that were counted
C29_Witness ==
  /\ spc = "done"
  /\ aggregate = "getRegionStats"
  /\ BranchCount = 3
  /\ itemless = {2}
  /\ statsResult.kind = "return"
  /\ Len(statsResult.value.v) = 2
\* every content type without item: the aggregate throws
C29_AllItemlessWitness ==
  /\ spc = "done"
  /\ aggregate = "getTypeStats"
  /\ itemless = 1..8
  /\ statsResult = Throw(AllQueriesFailedError)

====
